---------------------------- MODULE Spec2Model ----------------------------
(***************************************************************************)
(* A model of the Control-M event normalisation code of w3rkstatt          *)
(* (src/src/core_ctm.py): the alert status/severity/priority translators,  *)
(* the alert enricher trasnformtCtmAlert, the job log assembler            *)
(* transformCtmJobLog and the event assembler transformCtmBHOM.            *)
(*                                                                         *)
(* Text.  A Python string is a sequence of chunks, each chunk a TLA+       *)
(* string of one or more characters that the model never looks inside      *)
(* ("UNAVAILABLE" is <<"UN", "AVAILABLE">>, so that it contains            *)
(* "AVAILABLE"); white space is a chunk of its own.  `x in s` is the       *)
(* search for a contiguous run of chunks, s.split() cuts at white-space    *)
(* chunks, s + t is \o.  Python's None is the value None below; an         *)
(* exception leaves the function, which the model records as               *)
(* pc = "raised".                                                          *)
(***************************************************************************)
EXTENDS Integers, Sequences, FiniteSets, TLC

----------------------------------------------------------------------------
(* Text *)

\* Python's None (a value no string equals).
None == <<"$None">>

\* The result of a call that raised an exception.
TypeError == <<"$TypeError">>
IndexError == <<"$IndexError">>
KeyError == <<"$KeyError">>
AttributeError == <<"$AttributeError">>
UnboundLocalError == <<"$UnboundLocalError">>
JSONDecodeError == <<"$JSONDecodeError">>

\* A local name before its assignment (ctmFolder, sEntry, sCtmCode).
Unbound == <<"$Unbound">>

IsError(v) ==
    v \in {TypeError, IndexError, KeyError, AttributeError, UnboundLocalError,
           JSONDecodeError}

\* White-space chunks: one blank, two blanks, three blanks, a tab.
Blank == " "
Blank2 == "  "
Blank3 == "   "
Tab == "\t"
IsSpace(c) == c \in {Blank, Blank2, Blank3, Tab}

\* len(s): the number of characters.
RECURSIVE CharLenFrom(_, _)
CharLenFrom(s, i) ==
    IF i > Len(s) THEN 0 ELSE Len(s[i]) + CharLenFrom(s, i + 1)
CharLen(s) == CharLenFrom(s, 1)

\* pat in s
Contains(pat, s) ==
    \E i \in 0..(Len(s) - Len(pat)) : SubSeq(s, i + 1, i + Len(pat)) = pat

\* s.split(): the maximal runs of non-white-space chunks, in order.
RECURSIVE SplitAcc(_, _, _, _)
SplitAcc(s, i, cur, out) ==
    IF i > Len(s)
    THEN (IF cur = <<>> THEN out ELSE Append(out, cur))
    ELSE IF IsSpace(s[i])
         THEN SplitAcc(s, i + 1, <<>>, IF cur = <<>> THEN out ELSE Append(out, cur))
         ELSE SplitAcc(s, i + 1, Append(cur, s[i]), out)
Split(s) == SplitAcc(s, 1, <<>>, <<>>)

\* l[n] for a Python list l and n >= 0: IndexError past the end.
Item(l, n) == IF n + 1 <= Len(l) THEN l[n + 1] ELSE IndexError

\* a + b + ... on strings: TypeError as soon as one operand is None.
RECURSIVE Concat(_)
Concat(parts) ==
    IF parts = <<>> THEN <<>>
    ELSE IF Head(parts) = None THEN TypeError
    ELSE LET rest == Concat(Tail(parts))
         IN  IF IsError(rest) THEN rest ELSE Head(parts) \o rest

----------------------------------------------------------------------------
(* Dictionaries: insertion-ordered, as Python's dict. *)

EmptyDict == [ord |-> <<>>, val |-> <<>>]
Has(d, k) == \E i \in 1..Len(d.ord) : d.ord[i] = k
KeyPos(d, k) == CHOOSE i \in 1..Len(d.ord) : d.ord[i] = k
Get(d, k) == d.val[KeyPos(d, k)]
\* d[k] = v: a new key goes last, an old key keeps its place.
Put(d, k, v) ==
    IF Has(d, k)
    THEN [d EXCEPT !.val[KeyPos(d, k)] = v]
    ELSE [ord |-> Append(d.ord, k), val |-> Append(d.val, v)]

\* w3rkstatt.getJsonValue(path="$.<k>", data=d): the value of the first
\* match (None for a null value), the empty string when nothing matches.
getJsonValue(d, k) == IF Has(d, k) THEN Get(d, k) ELSE <<>>

----------------------------------------------------------------------------
(* Status / severity / priority translators *)

\* The checks with "Noticed" tried before "Not_Noticed".
translateCtmAlertStatusNoticedFirst(data) ==
    IF data = None THEN TypeError
    ELSE IF Contains(<<"Noticed">>, data) THEN <<"ACK">>
    ELSE IF Contains(<<"Not_", "Noticed">>, data) THEN <<"OPEN">>
    ELSE IF Contains(<<"Handled">>, data) THEN <<"CLOSED">>
    ELSE <<"OPEN">>

\* The checks with "Handled" tried first.
translateCtmAlertStatusHandledFirst(data) ==
    IF data = None THEN TypeError
    ELSE IF Contains(<<"Handled">>, data) THEN <<"CLOSED">>
    ELSE IF Contains(<<"Not_", "Noticed">>, data) THEN <<"OPEN">>
    ELSE IF Contains(<<"Noticed">>, data) THEN <<"ACK">>
    ELSE <<"OPEN">>

\* Lines 1185-1196.
translateCtmAlertStatus(data) ==
    IF data = None THEN TypeError
    ELSE IF Contains(<<"Not_", "Noticed">>, data) THEN <<"OPEN">>
    ELSE IF Contains(<<"Noticed">>, data) THEN <<"ACK">>
    ELSE IF Contains(<<"Handled">>, data) THEN <<"CLOSED">>
    ELSE <<"OPEN">>

translateCtmAlertSeverity(data) ==
    IF data = None THEN TypeError
    ELSE IF Contains(<<"R">>, data) THEN <<"INFO">>
    ELSE IF Contains(<<"U">>, data) THEN <<"MAJOR">>
    ELSE IF Contains(<<"V">>, data) THEN <<"CRITICAL">>
    ELSE <<"INFO">>

\* The checks with "CRITICAL" tried first.
translateCtmAlertPriorityCriticalFirst(data) ==
    IF data = None THEN TypeError
    ELSE IF Contains(<<"CRITICAL">>, data) THEN <<"PRIORITY_1">>
    ELSE IF Contains(<<"INFO">>, data) THEN <<"PRIORITY_5">>
    ELSE IF Contains(<<"MAJOR">>, data) THEN <<"PRIORITY_2">>
    ELSE <<"INFO">>

\* Lines 1213-1224.
translateCtmAlertPriority(data) ==
    IF data = None THEN TypeError
    ELSE IF Contains(<<"INFO">>, data) THEN <<"PRIORITY_5">>
    ELSE IF Contains(<<"MAJOR">>, data) THEN <<"PRIORITY_2">>
    ELSE IF Contains(<<"CRITICAL">>, data) THEN <<"PRIORITY_1">>
    ELSE <<"INFO">>

translateCtmAlertUpdateType(data) ==
    IF data = None THEN TypeError
    ELSE IF Contains(<<"I">>, data) THEN <<"New">>
    ELSE IF Contains(<<"U">>, data) THEN <<"Update">>
    ELSE <<"New">>

extractCtmAlertType(data) ==
    IF data = None THEN TypeError
    ELSE IF Contains(<<"R">>, data) THEN <<"Regular">>
    ELSE IF Contains(<<"B">>, data) THEN <<"BMC Batch Impact Manager">>
    ELSE <<"Regular">>

\* data[a:b] on a string of one-character chunks (a slice never raises).
Slice(data, a, b) ==
    SubSeq(data, a + 1, IF b < Len(data) THEN b ELSE Len(data))

\* The date with the day before the month.
extractCtmAlertDateDayFirst(data) ==
    IF data = None THEN TypeError
    ELSE Slice(data, 0, 4) \o <<"-">> \o Slice(data, 6, 8) \o <<"-">>
         \o Slice(data, 4, 6) \o <<" ">> \o Slice(data, 8, 10) \o <<":">>
         \o Slice(data, 10, 12) \o <<":">> \o Slice(data, 12, Len(data))

\* Lines 1270-1280.
extractCtmAlertDate(data) ==
    IF data = None THEN TypeError
    ELSE Slice(data, 0, 4) \o <<"-">> \o Slice(data, 4, 6) \o <<"-">>
         \o Slice(data, 6, 8) \o <<" ">> \o Slice(data, 8, 10) \o <<":">>
         \o Slice(data, 10, 12) \o <<":">> \o Slice(data, 12, Len(data))

extractCtmAlertCal(data) ==
    IF data = None THEN TypeError ELSE Slice(data, 0, 8)

----------------------------------------------------------------------------
(* Collaborators of the alert enricher: the host identity resolver and the *)
(* project configuration.                                                  *)

\* Words joined by single blanks.
RECURSIVE W(_)
W(ws) ==
    IF Len(ws) = 0 THEN <<>>
    ELSE IF Len(ws) = 1 THEN <<ws[1]>>
    ELSE <<ws[1], Blank>> \o W(Tail(ws))

\* $.CTM.host and $.CTM.port of the configuration.
ctm_host == <<"ctmhost">>
ctm_port == <<"8443">>

\* $.CTM.datacenter[0] of the configuration.
CfgDataCenterName == <<"dc1">>
CfgDataCenterHost == <<"ctmsrv">>

\* getJsonValue("$.CTM.datacenter[?(@.name=='<name>')].host", jCfgData):
\* the host of the data center of that name, else the empty string.
\* str(None) is the name "None", which the configuration does not hold.
LookupDataCenterHost(name) ==
    IF name = CfgDataCenterName THEN CfgDataCenterHost ELSE <<>>

\* w3rkstatt.getHostIP / getHostFqdn / getHostDomain: the identity of a
\* host, or None for each when the host does not resolve.
getHostIP(resolved, hostname) ==
    IF resolved THEN <<"ip-of-">> \o hostname ELSE None
getHostFqdn(resolved, hostname) ==
    IF resolved THEN hostname \o <<".example.com">> ELSE None
getHostDomain(resolved, hostname) ==
    IF resolved THEN <<"example.com">> ELSE None

cdmclass == <<"BMC_ApplicationService">>

----------------------------------------------------------------------------
(* Input alerts *)

PatAgent == W(<<"STATUS", "OF", "AGENT", "PLATFORM">>)
PatDataCenter == W(<<"DATA", "CENTER">>)
PatInfra == W(<<"Distributed", "Control-M/EM", "Configuration", "Agent">>)
PatEndedNotOk == W(<<"Ended", "not", "OK">>)
PatFailedToOrder == W(<<"Failed", "to", "order">>)
PatBim == W(<<"BIM", "/", "SIM">>)

MsgAgentUp == PatAgent \o <<Blank>> \o W(<<"host1", "CHANGED", "TO", "AVAILABLE">>)
MsgAgentDown ==
    PatAgent \o <<Blank>> \o W(<<"host1", "CHANGED", "TO">>) \o <<Blank, "UN", "AVAILABLE">>
\* Both an agent status and a failed job in one message.
MsgAgentAndJob == MsgAgentDown \o <<Blank>> \o PatEndedNotOk
\* The same with too few words for the status at word 7.
MsgAgentShort == PatAgent \o <<Blank>> \o PatEndedNotOk
MsgDcDown == PatDataCenter \o <<Blank>> \o W(<<"ctmsrv", "WAS">>) \o <<Blank, "DIS", "CONNECTED">>
MsgDcUp == PatDataCenter \o <<Blank>> \o W(<<"ctmsrv", "WAS", "CONNECTED">>)
MsgInfra == W(<<"Host", "is", "emhost">>) \o <<Blank>> \o PatInfra \o <<Blank>> \o W(<<"not", "responding">>)
MsgInfraCapital == W(<<"Host", "is", "emhost">>) \o <<Blank>> \o PatInfra \o <<Blank>> \o W(<<"Not", "responding">>)
MsgInfraUp == W(<<"Host", "is", "emhost">>) \o <<Blank>> \o PatInfra \o <<Blank>> \o W(<<"is", "up">>)
MsgEndedNotOk == W(<<"Job", "XYZ">>) \o <<Blank>> \o PatEndedNotOk
MsgFailedToOrder == PatFailedToOrder \o <<Blank>> \o W(<<"job", "XYZ">>)
MsgBim == PatBim \o <<Blank>> \o W(<<"service", "late">>)
MsgOther == W(<<"Job", "XYZ", "ended", "ok">>)

Messages ==
    {MsgAgentUp, MsgAgentDown, MsgAgentAndJob, MsgAgentShort, MsgDcDown,
     MsgDcUp, MsgInfra, MsgInfraCapital, MsgInfraUp, MsgEndedNotOk,
     MsgFailedToOrder, MsgBim, MsgOther}

\* A 14-digit time stamp, one digit per chunk: 20210402124807.
TimeStamp ==
    <<"2", "0", "2", "1", "0", "4", "0", "2", "1", "2", "4", "8", "0", "7">>

SentinelOrderId == <<"00000">>
OrderId == <<"12345">>
GatewayRunAs == W(<<"Gateway", "ctmsrv">>)
InfraMessage == PatInfra \o <<Blank>> \o W(<<"on", "emhost", "not", "responding">>)

\* The key order in which the scheduler sends the fields of an alert,
\* followed by the fields of a component (X-) alert.
CanonOrder ==
    <<"alert_id", "call_type", "data_center", "memname", "order_id",
      "severity", "status", "send_time", "last_time", "message", "run_as",
      "sub_application", "application", "job_name", "host_id", "alert_type",
      "closed_from_em", "ticket_number", "run_counter", "notes", "Xtime",
      "Xtime_of_last", "Message", "Component_machine">>

RECURSIVE Reverse(_)
Reverse(s) == IF s = <<>> THEN <<>> ELSE Append(Reverse(Tail(s)), Head(s))

\* The alert with the fields of f (a function from keys to values), in the
\* order of the keys in order.
RECURSIVE MkAlert(_, _)
MkAlert(f, order) ==
    IF order = <<>> THEN EmptyDict
    ELSE LET rest == MkAlert(f, Tail(order))
             k == Head(order)
         IN  IF k \in DOMAIN f
             THEN [ord |-> <<k>> \o rest.ord, val |-> <<f[k]>> \o rest.val]
             ELSE rest

NoFields == [k \in {} |-> None]

MessageOpts == {NoFields} \cup {[k \in {"message"} |-> m] : m \in Messages}

\* Fields whose rule sets a category besides the message rule.
OverrideOpts ==
    {NoFields,
     [k \in {"run_as"} |-> GatewayRunAs],
     [k \in {"Xtime"} |-> TimeStamp],
     [k \in {"Message"} |-> InfraMessage]}

SeverityOpts ==
    {NoFields, [k \in {"severity"} |-> <<"V">>], [k \in {"severity"} |-> <<"R">>]}

JobB(order, counter) ==
    [k \in {"order_id", "data_center", "job_name", "run_counter"} |->
        CASE k = "order_id" -> order
          [] k = "data_center" -> CfgDataCenterName
          [] k = "job_name" -> <<"XYZ">>
          [] k = "run_counter" -> counter]

JobOpts ==
    {NoFields,
     [k \in {"data_center"} |-> CfgDataCenterName],
     [k \in {"order_id", "data_center"} |->
        IF k = "order_id" THEN OrderId ELSE CfgDataCenterName],
     [k \in {"order_id", "data_center"} |->
        IF k = "order_id" THEN SentinelOrderId ELSE CfgDataCenterName],
     JobB(OrderId, <<"3">>),
     JobB(SentinelOrderId, <<"3">>),
     JobB(OrderId, None)}

TimeOpts ==
    {NoFields, [k \in {"send_time"} |-> TimeStamp],
     [k \in {"last_time"} |-> TimeStamp], [k \in {"last_time"} |-> None]}

\* One field alone, for the rules the combinations above leave out.
SingleOpts ==
    {[k \in {"call_type"} |-> <<"U">>], [k \in {"status"} |-> <<"Noticed">>],
     [k \in {"alert_type"} |-> <<"B">>], [k \in {"memname"} |-> <<"script.sh">>],
     [k \in {"Xtime_of_last"} |-> TimeStamp], [k \in {"host_id"} |-> <<"host1">>],
     [k \in {"Component_machine"} |-> <<"emhost">>],
     [k \in {"message"} |-> None], [k \in {"run_as"} |-> <<"batch">>]}

\* The fields an alert may carry as null, and the alerts of one such field.
NullableFields ==
    {"call_type", "send_time", "last_time", "alert_type", "severity",
     "status", "message", "Message", "order_id", "job_name", "run_counter",
     "data_center", "host_id", "run_as"}
NullOpts == {[k \in {f} |-> None] : f \in NullableFields}

\* An alert with every field the scheduler sends for a job.
CompleteAlert(m) ==
    [k \in {"alert_id", "call_type", "data_center", "memname", "order_id",
            "severity", "status", "send_time", "message", "run_as",
            "sub_application", "application", "job_name", "host_id",
            "alert_type", "closed_from_em", "ticket_number", "run_counter",
            "notes"} |->
        CASE k = "alert_id" -> <<"42">>
          [] k = "call_type" -> <<"I">>
          [] k = "data_center" -> CfgDataCenterName
          [] k = "memname" -> <<"script.sh">>
          [] k = "order_id" -> OrderId
          [] k = "severity" -> <<"V">>
          [] k = "status" -> <<"Not_", "Noticed">>
          [] k = "send_time" -> TimeStamp
          [] k = "message" -> m
          [] k = "run_as" -> <<"batch">>
          [] k = "sub_application" -> <<"sub">>
          [] k = "application" -> <<"app">>
          [] k = "job_name" -> <<"XYZ">>
          [] k = "host_id" -> <<"host1">>
          [] k = "alert_type" -> <<"R">>
          [] k = "closed_from_em" -> <<"N">>
          [] k = "ticket_number" -> <<"T1">>
          [] k = "run_counter" -> <<"3">>
          [] k = "notes" -> <<"seen">>]
CompleteOpts == {CompleteAlert(MsgOther), CompleteAlert(MsgEndedNotOk)}

AlertFields ==
    {m @@ o @@ s @@ j @@ t :
        m \in MessageOpts, o \in OverrideOpts, s \in SeverityOpts,
        j \in JobOpts, t \in TimeOpts}
    \cup SingleOpts \cup NullOpts \cup CompleteOpts

KeyOrders == {CanonOrder, Reverse(CanonOrder)}

RawAlerts == {MkAlert(f, order) : f \in AlertFields, order \in KeyOrders}

----------------------------------------------------------------------------
(* trasnformtCtmAlert: the state of one call *)

VARIABLES
    jCtmAlert,          \* the alert, enriched in place
    idx,                \* the position of the per-field loop in jCtmAlert
    pc,                 \* "loop", "job_uri", "agent", "datacenter", "final", "done", "raised", "idle"
    exc,                \* the exception that left the function, or None
    resolves,           \* whether the host identity resolver knows the hosts
    rawAlert,           \* the alert as the caller passed it
    alias, ctmOrderId, ctmJobId, ctmJobScript, ctmUpdateDate,
    data_center_ip, data_center_fqdn, data_center_dns,
    host_ip, host_ip_fqdn, host_ip_dns, host_name,
    summary, notes, sAgentStatus, sDataCenterStatus, sAlertCat, sSystemStatus

\* transformCtmJobLog: the state of one call
VARIABLES
    logData,            \* the log text, as its lines (each without its line end)
    yList,              \* the stripped non-blank lines
    logI,               \* i, the number of lines parsed
    log_list,           \* the records built so far
    logPc,              \* "start", "lines", "done", "raised", "idle"
    logExc,             \* the exception that left the function, or None
    logResult           \* the value returned

\* transformCtmBHOM: the state of one call
VARIABLES
    bhomData,           \* json_ctm_data, the parsed argument
    category,           \* the category selector
    ctmFolder,          \* the folder of the job, Unbound until assigned
    event_data,         \* the event under construction
    bhomPc,             \* "start", "jobConfig", "jobAlert", "done", "raised", "idle"
    bhomExc,            \* the exception that left the function, or None
    bhomResult          \* json_data, the value returned

\* One call of a translator
VARIABLES
    trIn,               \* the argument
    trOut,              \* the value returned
    trPc                \* "call", the name of the translator that returned, "idle"

\* transformCtmJobLogMini: the state of one call
VARIABLES
    miniData,           \* the log text
    runCounter,         \* the run counter of the job, as text
    pList,              \* the pieces of the text between the escaped line ends
    miniIdx,            \* the number of pieces the loop has passed
    miniI,              \* i, the number of entries counted
    mini_list,          \* log_list, the records built so far
    miniEntry,          \* sEntry, the text of the failure entries, Unbound until assigned
    miniCtmCode,        \* sCtmCode, Unbound until assigned
    miniStatus,         \* sJobLogStatus
    miniPc,             \* "start", "lines", "done", "raised", "idle"
    miniExc,            \* the exception that left the function, or None
    miniResult          \* the value returned

\* transformCtmJobOutput: the state of one call
VARIABLES
    outData,            \* the output text, as its lines (each without its line end)
    outList,            \* yList, the stripped non-blank lines
    outI,               \* i, the number of entries written
    jValue,             \* the numbered entries
    outPc,              \* "start", "lines", "done", "idle"
    outResult           \* the value returned

\* CtmConnection: one object after its construction
VARIABLES
    logged_in,          \* the attribute logged_in
    connPc,             \* "live", "deleted" (after __del__), "idle"
    apiLog,             \* the calls of session_api.do_logout made so far
    logoutCalls,        \* the number of logout() calls made so far
    connExc             \* the exception that left the last call, or None

\* ctmTest: the state of one call
VARIABLES
    ctmReportStatus,    \* the status the last poll gave, None before the first
    polled,             \* the statuses getCtmReportStatus has given, in order
    pollPc,             \* "start", "loop", "report" (line 766), "raised", "idle"
    pollExc             \* the exception that left the function, or None

\* getCtmJobStatus: the state of one call
VARIABLES
    ctmServer,          \* the argument ctmServer
    ctmOrderID,         \* the argument ctmOrderID
    apiCalls,           \* the job ids get_jobs_status_by_filter was called with
    results,            \* the local results
    jResults,           \* the local jResults: whether assigned, and its value
    jobPc,              \* "start", "call", "return", "done", "raised", "idle"
    jobExc              \* the exception that left the function, or None

\* translateCrqStatus (bridge_helix.py): the state of one call
VARIABLES
    crqStatus,          \* the argument status
    httpResponseCode,   \* the value returned, 0 before the return
    crqPc               \* "call", "done", "idle"

VARIABLES
    firstOut            \* the alert an earlier call returned for the same fields, else empty

logVars == <<logData, yList, logI, log_list, logPc, logExc, logResult>>
bhomVars == <<bhomData, category, ctmFolder, event_data, bhomPc, bhomExc, bhomResult>>
trVars == <<trIn, trOut, trPc>>
outVars == <<outData, outList, outI, jValue, outPc, outResult>>
connVars == <<logged_in, connPc, apiLog, logoutCalls, connExc>>
pollVars == <<ctmReportStatus, polled, pollPc, pollExc>>
jobStatVars ==
    <<ctmServer, ctmOrderID, apiCalls, results, jResults, jobPc, jobExc>>
crqVars == <<crqStatus, httpResponseCode, crqPc>>
extraVars == <<outVars, connVars, pollVars, jobStatVars, crqVars>>
miniVars ==
    <<miniData, runCounter, pList, miniIdx, miniI, mini_list, miniEntry,
      miniCtmCode, miniStatus, miniPc, miniExc, miniResult>>

hostVars == <<host_ip, host_ip_fqdn, host_ip_dns>>
dcVars == <<data_center_ip, data_center_fqdn, data_center_dns>>
jobVars == <<ctmOrderId, ctmJobId>>
textVars == <<summary, notes>>
sideVars == <<sAgentStatus, sDataCenterStatus>>
catVars == <<sAlertCat, sSystemStatus>>
localVars ==
    <<alias, ctmJobScript, ctmUpdateDate, host_name, hostVars, dcVars,
      jobVars, textVars, sideVars, catVars>>
alertVars == <<jCtmAlert, idx, pc, exc, resolves, rawAlert, firstOut, localVars>>
\* What no step of trasnformtCtmAlert changes.
alertFrame ==
    <<resolves, rawAlert, firstOut, logVars, bhomVars, trVars, miniVars,
      extraVars>>

\* Lines 1339-1355: the fields the enricher expects are added, as null,
\* when the alert lacks them.
DefaultKeys ==
    <<"data_center", "host_id", "host_ip", "host_ip_fqdn", "host_ip_dns",
      "system_status">>

RECURSIVE WithDefaults(_, _)
WithDefaults(d, ks) ==
    IF ks = <<>> THEN d
    ELSE WithDefaults(IF Has(d, Head(ks)) THEN d ELSE Put(d, Head(ks), None),
                      Tail(ks))

LocalsInit ==
    /\ alias = None /\ ctmOrderId = None /\ ctmJobId = None
    /\ ctmJobScript = None /\ ctmUpdateDate = None
    /\ data_center_ip = None /\ data_center_fqdn = None /\ data_center_dns = None
    /\ host_ip = None /\ host_ip_fqdn = None /\ host_ip_dns = None
    /\ host_name = None
    /\ summary = None /\ notes = None
    /\ sAgentStatus = None /\ sDataCenterStatus = None
    /\ sAlertCat = None /\ sSystemStatus = None

AlertInit ==
    /\ \E data \in RawAlerts :
          /\ rawAlert = data
          /\ jCtmAlert = WithDefaults(data, DefaultKeys)
    /\ resolves \in BOOLEAN
    /\ idx = 1
    /\ pc = "loop"
    /\ exc = None
    /\ firstOut = EmptyDict
    /\ LocalsInit

AlertIdle ==
    /\ jCtmAlert = EmptyDict
    /\ rawAlert = EmptyDict
    /\ firstOut = EmptyDict
    /\ resolves = FALSE
    /\ idx = 0
    /\ pc = "idle"
    /\ exc = None
    /\ LocalsInit

key == jCtmAlert.ord[idx]
value == jCtmAlert.val[idx]
InLoop(k) == pc = "loop" /\ key = k

\* The loop goes to the next field, or ends.
Advance ==
    /\ idx' = idx + 1
    /\ pc' = IF idx = Len(jCtmAlert.ord) THEN "job_uri" ELSE "loop"
    /\ UNCHANGED <<exc, alertFrame>>

\* An exception leaves the function.
Raise(e) ==
    /\ pc' = "raised"
    /\ exc' = e
    /\ UNCHANGED <<jCtmAlert, idx, alertFrame, localVars>>

\* A rule that only rewrites its own field with new.
Rewrite(new) ==
    IF IsError(new) THEN Raise(new)
    ELSE /\ jCtmAlert' = [jCtmAlert EXCEPT !.val[idx] = new]
         /\ Advance
         /\ UNCHANGED localVars

\* Lines 1361-1363.
RuleCallType ==
    /\ InLoop("call_type")
    /\ Rewrite(translateCtmAlertUpdateType(value))

\* Lines 1393-1395.
RuleAlertType ==
    /\ InLoop("alert_type")
    /\ Rewrite(extractCtmAlertType(value))

\* Lines 1396-1398.
RuleSeverity ==
    /\ InLoop("severity")
    /\ Rewrite(translateCtmAlertSeverity(value))

\* Lines 1399-1401.
RuleStatus ==
    /\ InLoop("status")
    /\ Rewrite(translateCtmAlertStatus(value))

\* Lines 1389-1391.
RuleXtimeOfLast ==
    /\ InLoop("Xtime_of_last")
    /\ Rewrite(extractCtmAlertDate(value))

\* The send_time rule, and the last_time rule on a value that is not None.
DecodeTime ==
    LET new == extractCtmAlertDate(value)
    IN  IF IsError(new) THEN Raise(new)
        ELSE /\ jCtmAlert' = [jCtmAlert EXCEPT !.val[idx] = new]
             /\ ctmUpdateDate' = extractCtmAlertCal(value)
             /\ Advance
             /\ UNCHANGED <<alias, ctmJobScript, host_name, hostVars, dcVars,
                            jobVars, textVars, sideVars, catVars>>

\* Lines 1364-1368.
RuleSendTime ==
    /\ InLoop("send_time")
    /\ DecodeTime

\* Lines 1369-1374.
RuleLastTime ==
    /\ InLoop("last_time")
    /\ IF value # None THEN DecodeTime
       ELSE Advance /\ UNCHANGED <<jCtmAlert, localVars>>

\* Lines 1376-1382.
RuleMemname ==
    /\ InLoop("memname")
    /\ ctmJobScript' = IF value # None /\ value # <<"None">> THEN value ELSE ctmJobScript
    /\ Advance
    /\ UNCHANGED <<jCtmAlert, alias, ctmUpdateDate, host_name, hostVars, dcVars,
                   jobVars, textVars, sideVars, catVars>>

\* Lines 1385-1388: an X-alert is an infrastructure alert.
RuleXtime ==
    /\ InLoop("Xtime")
    /\ LET new == extractCtmAlertDate(value)
       IN  IF IsError(new) THEN Raise(new)
           ELSE /\ jCtmAlert' = [jCtmAlert EXCEPT !.val[idx] = new]
                /\ sAlertCat' = <<"infrastructure">>
                /\ Advance
                /\ UNCHANGED <<alias, ctmJobScript, ctmUpdateDate, host_name,
                               hostVars, dcVars, jobVars, textVars, sideVars,
                               sSystemStatus>>

\* Lines 1402-1408: the job id, from the data center and the order id.
RuleRunCounter ==
    /\ InLoop("run_counter")
    /\ IF value = None THEN Advance /\ UNCHANGED <<jCtmAlert, localVars>>
       ELSE LET ctmDataCenter == getJsonValue(jCtmAlert, "data_center")
                orderId == getJsonValue(jCtmAlert, "order_id")
                jobId == Concat(<<ctmDataCenter, <<":">>, orderId>>)
            IN  IF IsError(jobId) THEN Raise(jobId)
                ELSE /\ ctmOrderId' = orderId
                     /\ ctmJobId' = jobId
                     /\ Advance
                     /\ UNCHANGED <<jCtmAlert, alias, ctmJobScript, ctmUpdateDate,
                                    host_name, hostVars, dcVars, textVars,
                                    sideVars, catVars>>

\* str(value)
Str(v) == IF v = None THEN <<"None">> ELSE v

\* Lines 1409-1421: the identity of the data center's host.
RuleDataCenter ==
    /\ InLoop("data_center")
    /\ LET data_center == LookupDataCenterHost(Str(value))
       IN  IF CharLen(data_center) > 1
           THEN /\ data_center_ip' = getHostIP(resolves, data_center)
                /\ data_center_fqdn' = getHostFqdn(resolves, data_center)
                /\ data_center_dns' = getHostDomain(resolves, data_center)
           ELSE /\ data_center_ip' = None
                /\ data_center_fqdn' = None
                /\ data_center_dns' = None
    /\ Advance
    /\ UNCHANGED <<jCtmAlert, alias, ctmJobScript, ctmUpdateDate, host_name,
                   hostVars, jobVars, textVars, sideVars, catVars>>

\* host_ip, host_ip_fqdn and host_ip_dns become the identity of hostname.
ResolveHost(hostname) ==
    /\ host_ip' = getHostIP(resolves, hostname)
    /\ host_ip_fqdn' = getHostFqdn(resolves, hostname)
    /\ host_ip_dns' = getHostDomain(resolves, hostname)

\* Lines 1422-1427.
RuleHostId ==
    /\ InLoop("host_id")
    /\ IF value # None /\ CharLen(value) > 0
       THEN ResolveHost(value)
       ELSE UNCHANGED hostVars
    /\ Advance
    /\ UNCHANGED <<jCtmAlert, alias, ctmJobScript, ctmUpdateDate, host_name,
                   dcVars, jobVars, textVars, sideVars, catVars>>

\* Lines 1429-1442.
RuleComponentMachine ==
    /\ InLoop("Component_machine")
    /\ LET newAlias ==
               Concat(<<cdmclass, <<":">>, value, <<":">>,
                        getHostDomain(resolves, value)>>)
       IN  IF IsError(newAlias) THEN Raise(newAlias)
           ELSE /\ ResolveHost(value)
                /\ alias' = newAlias
                /\ jCtmAlert' = Put(jCtmAlert, "data_center", CfgDataCenterName)
                /\ data_center_ip' = getHostIP(resolves, CfgDataCenterHost)
                /\ data_center_fqdn' = getHostFqdn(resolves, CfgDataCenterHost)
                /\ data_center_dns' = getHostDomain(resolves, CfgDataCenterHost)
                /\ Advance
                /\ UNCHANGED <<ctmJobScript, ctmUpdateDate, host_name, jobVars,
                               textVars, sideVars, catVars>>

----------------------------------------------------------------------------
(* The message rule, lines 1444-1539 *)

\* The chain with the failed-job pattern tried first.
MessageRuleJobFirst(v) ==
    IF Contains(PatEndedNotOk, v) THEN "ended"
    ELSE IF Contains(PatAgent, v) THEN "agent"
    ELSE IF Contains(PatDataCenter, v) THEN "datacenter"
    ELSE IF Contains(PatInfra, v) THEN "infrastructure"
    ELSE IF Contains(PatFailedToOrder, v) THEN "order"
    ELSE IF Contains(PatBim, v) THEN "bim"
    ELSE "default"

\* The if/elif chain over the message text: the first pattern found names
\* the branch.
MessageRule(v) ==
    IF Contains(PatAgent, v) THEN "agent"
    ELSE IF Contains(PatDataCenter, v) THEN "datacenter"
    ELSE IF Contains(PatInfra, v) THEN "infrastructure"
    ELSE IF Contains(PatEndedNotOk, v) THEN "ended"
    ELSE IF Contains(PatFailedToOrder, v) THEN "order"
    ELSE IF Contains(PatBim, v) THEN "bim"
    ELSE "default"

\* The first of the values that is an error, or None.
RECURSIVE FirstError(_)
FirstError(vs) ==
    IF vs = <<>> THEN None
    ELSE IF IsError(Head(vs)) THEN Head(vs)
    ELSE FirstError(Tail(vs))

\* Lines 1445-1454: "STATUS OF AGENT PLATFORM".
MsgAgentBranch ==
    LET sTemp == Split(value)
        name == Item(sTemp, 4)
        dns == IF IsError(name) THEN name ELSE getHostDomain(resolves, name)
        newAlias == Concat(<<cdmclass, <<":">>, name, <<":">>, dns>>)
        status == Item(sTemp, 7)
        err == FirstError(<<name, newAlias, status>>)
    IN  IF err # None THEN Raise(err)
        ELSE /\ host_name' = name
             /\ ResolveHost(name)
             /\ jCtmAlert' = Put(jCtmAlert, "host_id", name)
             /\ alias' = newAlias
             /\ sAgentStatus' = status
             /\ sAlertCat' = <<"agent">>
             /\ Advance
             /\ UNCHANGED <<ctmJobScript, ctmUpdateDate, dcVars, jobVars,
                            textVars, sDataCenterStatus, sSystemStatus>>

\* Lines 1455-1463: "DATA CENTER".
MsgDataCenterBranch ==
    LET sTemp == Split(value)
        name == Item(sTemp, 2)
        dns == IF IsError(name) THEN name ELSE getHostDomain(resolves, name)
        newAlias == Concat(<<cdmclass, <<":">>, name, <<":">>, dns>>)
        status == Item(sTemp, 4)
        err == FirstError(<<name, newAlias, status>>)
    IN  IF err # None THEN Raise(err)
        ELSE /\ host_name' = name
             /\ ResolveHost(name)
             /\ alias' = newAlias
             /\ sDataCenterStatus' = status
             /\ sAlertCat' = <<"datacenter">>
             /\ Advance
             /\ UNCHANGED <<jCtmAlert, ctmJobScript, ctmUpdateDate, dcVars,
                            jobVars, textVars, sAgentStatus, sSystemStatus>>

PatNotResponding == W(<<"not", "responding">>)

\* Lines 1464-1478: "Distributed Control-M/EM Configuration Agent".
MsgInfraBranch ==
    LET sTemp == Split(value)
        name == Item(sTemp, 2)
    IN  IF IsError(name) THEN Raise(name)
        ELSE /\ host_name' = name
             /\ ResolveHost(name)
             /\ jCtmAlert' =
                    Put(Put(jCtmAlert, "host_id", getHostFqdn(resolves, name)),
                        "system_status",
                        IF Contains(PatNotResponding, value)
                        THEN <<"Not responding">> ELSE <<"TBD">>)
             /\ sAlertCat' = <<"infrastructure">>
             /\ Advance
             /\ UNCHANGED <<alias, ctmJobScript, ctmUpdateDate, dcVars, jobVars,
                            textVars, sideVars, sSystemStatus>>

\* Lines 1480-1536: "Ended not OK", "Failed to order", "BIM / SIM".  Only
\* the last two fall back to the message text when the job has no name.
MsgJobBranch(branch) ==
    LET ctmDataCenter == getJsonValue(jCtmAlert, "data_center")
        orderId == getJsonValue(jCtmAlert, "order_id")
        ctmJobRunId == Concat(<<ctmDataCenter, <<":">>, orderId>>)
        job_name == getJsonValue(jCtmAlert, "job_name")
        run_counter == getJsonValue(jCtmAlert, "run_counter")
        unnamed == branch # "ended" /\ job_name = None
        newSummary ==
            IF unnamed THEN value
            ELSE Concat(<<<<"Job ">>, job_name, <<" failed">>>>)
        newNotes ==
            IF IsError(ctmJobRunId) THEN ctmJobRunId
            ELSE IF unnamed
            THEN Concat(<<<<"CTRL-M Job failed. Job ID: ">>, ctmJobRunId,
                          <<" with Job Run Count: ">>, run_counter>>)
            ELSE Concat(<<<<"CTRL-M Job ">>, job_name, <<" failed. Job ID: ">>,
                          ctmJobRunId, <<" with Job Run Count: ">>, run_counter>>)
        err == FirstError(<<ctmJobRunId, newSummary, newNotes>>)
    IN  IF err # None THEN Raise(err)
        ELSE /\ ctmOrderId' = orderId
             /\ summary' = newSummary
             /\ notes' = newNotes
             /\ sAlertCat' = <<"job">>
             /\ sSystemStatus' = <<"failed">>
             /\ Advance
             /\ UNCHANGED <<jCtmAlert, alias, ctmJobScript, ctmUpdateDate,
                            host_name, hostVars, dcVars, ctmJobId, sideVars>>

\* Lines 1537-1539: no pattern found.
MsgDefaultBranch ==
    /\ summary' = value
    /\ notes' = value
    /\ Advance
    /\ UNCHANGED <<jCtmAlert, alias, ctmJobScript, ctmUpdateDate, host_name,
                   hostVars, dcVars, jobVars, sideVars, catVars>>

RuleMessage ==
    /\ InLoop("message")
    /\ IF value = None THEN Raise(TypeError)
       ELSE LET branch == MessageRule(value)
            IN  CASE branch = "agent" -> MsgAgentBranch
                  [] branch = "datacenter" -> MsgDataCenterBranch
                  [] branch = "infrastructure" -> MsgInfraBranch
                  [] branch \in {"ended", "order", "bim"} -> MsgJobBranch(branch)
                  [] OTHER -> MsgDefaultBranch

\* Lines 1541-1558: the Message field of a component alert.
RuleMessageX ==
    /\ InLoop("Message")
    /\ LET newNotes ==
               Concat(<<<<"CTRL-M Component ">>, value, <<". Managed by: ">>,
                        host_ip_fqdn>>)
           isInfra == Contains(PatInfra, value)
           sTemp == Split(value)
           name == IF isInfra THEN Item(sTemp, 5) ELSE <<>>
           dns == IF IsError(name) THEN name ELSE getHostDomain(resolves, name)
           newAlias == Concat(<<cdmclass, <<":">>, name, <<":">>, dns>>)
           err == FirstError(<<newNotes, name,
                               IF isInfra THEN newAlias ELSE <<>>>>)
       IN  IF err # None THEN Raise(err)
           ELSE /\ summary' = value
                /\ notes' = newNotes
                /\ IF isInfra
                   THEN /\ host_name' = name
                        /\ ResolveHost(name)
                        /\ jCtmAlert' =
                               Put(jCtmAlert, "host_id", getHostFqdn(resolves, name))
                        /\ alias' = newAlias
                        /\ sAlertCat' = <<"infrastructure">>
                        /\ sSystemStatus' =
                               IF Contains(PatNotResponding, value)
                               THEN <<"Not responding">> ELSE <<"TBD">>
                   ELSE UNCHANGED <<host_name, hostVars, jCtmAlert, alias, catVars>>
                /\ Advance
                /\ UNCHANGED <<ctmJobScript, ctmUpdateDate, dcVars, jobVars,
                               sideVars>>

\* Lines 1560-1566: an alert raised by a gateway is a server alert.
RuleRunAs ==
    /\ InLoop("run_as")
    /\ IF value # None /\ value # <<>> /\ Contains(<<"Gateway">>, value)
       THEN /\ sAlertCat' = <<"server">>
            /\ jCtmAlert' =
                   Put(jCtmAlert, "system_status",
                       IF Contains(W(<<"WAS", "DISCONNECTED">>), value)
                       THEN <<"Was Disconnected">> ELSE <<"TBD">>)
       ELSE UNCHANGED <<sAlertCat, jCtmAlert>>
    /\ Advance
    /\ UNCHANGED <<alias, ctmJobScript, ctmUpdateDate, host_name, hostVars,
                   dcVars, jobVars, textVars, sideVars, sSystemStatus>>

RuleKeys ==
    {"call_type", "send_time", "last_time", "memname", "Xtime",
     "Xtime_of_last", "alert_type", "severity", "status", "run_counter",
     "data_center", "host_id", "Component_machine", "message", "Message",
     "run_as"}

\* A field no rule reads.
RuleOther ==
    /\ pc = "loop"
    /\ key \notin RuleKeys
    /\ Advance
    /\ UNCHANGED <<jCtmAlert, localVars>>

----------------------------------------------------------------------------
(* After the loop, lines 1568-1636 *)

\* The test of line 1568 without the sentinel.
LinksJobAnyOrder(orderId) == orderId # None

\* Line 1568: the order id read by a rule is not the sentinel.
LinksJob(orderId) == orderId # SentinelOrderId /\ orderId # None

\* A severity that yields to the one already in the alert.
OverrideSeverityIfAbsent(d, sev) ==
    IF Has(d, "severity") THEN d ELSE Put(d, "severity", sev)

\* Lines 1580, 1587, 1597, 1603: jCtmAlert["severity"] = sev
OverrideSeverity(d, sev) == Put(d, "severity", sev)

\* Lines 1568-1574: the deep link to the job, unless the order id is the
\* sentinel or was never read.
PostJobUri ==
    /\ pc = "job_uri"
    /\ IF LinksJob(ctmOrderId)
       THEN LET ctmDataCenter == getJsonValue(jCtmAlert, "data_center")
                job_uri ==
                    Concat(<<<<"https://">>, ctm_host, <<":">>, ctm_port,
                             <<"/ControlM/#Search:id=Search_2&search=">>,
                             ctmOrderId, <<"&date=">>, ctmUpdateDate,
                             <<"&controlm=">>, ctmDataCenter>>)
            IN  IF IsError(job_uri) THEN Raise(job_uri)
                ELSE /\ jCtmAlert' =
                            Put(Put(jCtmAlert, "job_id", ctmJobId), "job_uri", job_uri)
                     /\ pc' = "agent"
                     /\ UNCHANGED <<idx, exc, alertFrame, localVars>>
       ELSE /\ pc' = "agent"
            /\ UNCHANGED <<jCtmAlert, idx, exc, alertFrame, localVars>>

\* Lines 1576-1591: the agent status captured by the message rule sets the
\* severity, the summary and the notes.
PostAgent ==
    /\ pc = "agent"
    /\ LET ctmDataCenter == getJsonValue(jCtmAlert, "data_center")
           down == Contains(<<"UN", "AVAILABLE">>, sAgentStatus)
           up == ~down /\ Contains(<<"AVAILABLE">>, sAgentStatus)
           newSummary ==
               Concat(<<<<"Agent on ">>, host_name,
                        IF down THEN <<" not availabble">> ELSE <<" availabble">>>>)
           newNotes ==
               Concat(<<<<"CTRL-M Agent on ">>, host_ip_fqdn,
                        IF down THEN <<" down or not availabble. Managed by: ">>
                        ELSE <<" availabble. Managed by: ">>,
                        ctmDataCenter>>)
           err == FirstError(<<newSummary, newNotes>>)
       IN  IF sAgentStatus = None \/ ~(down \/ up)
           THEN /\ pc' = "datacenter"
                /\ UNCHANGED <<jCtmAlert, idx, exc, alertFrame, localVars>>
           ELSE IF err # None THEN Raise(err)
           ELSE /\ jCtmAlert' =
                       OverrideSeverity(jCtmAlert,
                           IF down THEN <<"MAJOR">> ELSE <<"OK">>)
                /\ summary' = newSummary
                /\ notes' = newNotes
                /\ sSystemStatus' =
                       IF down THEN <<"unavailabble">> ELSE <<"availabble">>
                /\ pc' = "datacenter"
                /\ UNCHANGED <<idx, exc, alertFrame, alias, ctmJobScript,
                               ctmUpdateDate, host_name, hostVars, dcVars,
                               jobVars, sideVars, sAlertCat>>

\* Lines 1593-1607: the same for the data-center status.
PostDataCenter ==
    /\ pc = "datacenter"
    /\ LET ctmDataCenter == getJsonValue(jCtmAlert, "data_center")
           down == Contains(<<"DIS", "CONNECTED">>, sDataCenterStatus)
           up == ~down /\ Contains(<<"CONNECTED">>, sDataCenterStatus)
           newSummary ==
               IF down
               THEN Concat(<<<<"Data Center ">>, ctmDataCenter, <<" was disconnected">>>>)
               ELSE Concat(<<<<"Data Center on ">>, host_name, <<" availabble">>>>)
           newNotes ==
               Concat(<<<<"CTRL-M Data Center ">>, ctmDataCenter, <<" on ">>,
                        host_ip_fqdn,
                        IF down THEN <<" down or disconnected.">>
                        ELSE <<" availabble or connected.">>>>)
           err == FirstError(<<newSummary, newNotes>>)
       IN  IF sDataCenterStatus = None \/ ~(down \/ up)
           THEN /\ pc' = "final"
                /\ UNCHANGED <<jCtmAlert, idx, exc, alertFrame, localVars>>
           ELSE IF err # None THEN Raise(err)
           ELSE /\ jCtmAlert' =
                       OverrideSeverity(jCtmAlert,
                           IF down THEN <<"CRITICAL">> ELSE <<"OK">>)
                /\ summary' = newSummary
                /\ notes' = newNotes
                /\ sSystemStatus' =
                       IF down THEN <<"disconnected">> ELSE <<"connected">>
                /\ pc' = "final"
                /\ UNCHANGED <<idx, exc, alertFrame, alias, ctmJobScript,
                               ctmUpdateDate, host_name, hostVars, dcVars,
                               jobVars, sideVars, sAlertCat>>

\* Every key of an enriched alert, in the order of Python's sorted().
SortedKeys ==
    <<"Component_machine", "Message", "Xtime", "Xtime_of_last", "alert_id",
      "alert_type", "application", "call_type", "closed_from_em",
      "data_center", "data_center_dns", "data_center_fqdn",
      "data_center_ip", "host_id", "host_ip", "host_ip_dns",
      "host_ip_fqdn", "job_id", "job_name", "job_script", "job_uri",
      "last_time", "memname", "message", "message_notes",
      "message_summary", "notes", "order_id", "run_as", "run_counter",
      "send_time", "severity", "status", "sub_application",
      "system_category", "system_class", "system_status", "ticket_number">>

\* OrderedDict(sorted(d.items()))
RECURSIVE SortedFrom(_, _)
SortedFrom(d, ks) ==
    IF ks = <<>> THEN EmptyDict
    ELSE LET rest == SortedFrom(d, Tail(ks))
             k == Head(ks)
         IN  IF Has(d, k)
             THEN [ord |-> <<k>> \o rest.ord, val |-> <<Get(d, k)>> \o rest.val]
             ELSE rest
SortedDict(d) == SortedFrom(d, SortedKeys)

RECURSIVE PutAll(_, _)
PutAll(d, kvs) ==
    IF kvs = <<>> THEN d
    ELSE PutAll(Put(d, Head(kvs)[1], Head(kvs)[2]), Tail(kvs))

\* Lines 1609-1636: the derived fields are stored, the keys sorted, and
\* the alert returned as JSON text.
Finalize ==
    /\ pc = "final"
    /\ jCtmAlert' =
           SortedDict(PutAll(jCtmAlert,
               <<<<"data_center_ip", data_center_ip>>,
                 <<"data_center_fqdn", data_center_fqdn>>,
                 <<"data_center_dns", data_center_dns>>,
                 <<"host_ip", host_ip>>,
                 <<"host_ip_fqdn", host_ip_fqdn>>,
                 <<"host_ip_dns", host_ip_dns>>,
                 <<"system_category", sAlertCat>>,
                 <<"system_status", sSystemStatus>>,
                 <<"system_class", alias>>,
                 <<"job_script", ctmJobScript>>,
                 <<"message_summary", summary>>,
                 <<"message_notes", notes>>>>))
    /\ pc' = "done"
    /\ UNCHANGED <<idx, exc, alertFrame, localVars>>

\* The caller passes the fields of a returned alert again, in the opposite
\* key order: a second call of trasnformtCtmAlert (lines 1317-1359), the
\* first result kept for comparison.
SecondCall ==
    /\ pc = "done"
    /\ firstOut = EmptyDict
    /\ firstOut' = jCtmAlert
    /\ rawAlert' = [ord |-> Reverse(rawAlert.ord), val |-> Reverse(rawAlert.val)]
    /\ jCtmAlert' = WithDefaults(rawAlert', DefaultKeys)
    /\ idx' = 1
    /\ pc' = "loop"
    /\ alias' = None /\ ctmOrderId' = None /\ ctmJobId' = None
    /\ ctmJobScript' = None /\ ctmUpdateDate' = None
    /\ data_center_ip' = None /\ data_center_fqdn' = None
    /\ data_center_dns' = None
    /\ host_ip' = None /\ host_ip_fqdn' = None /\ host_ip_dns' = None
    /\ host_name' = None /\ summary' = None /\ notes' = None
    /\ sAgentStatus' = None /\ sDataCenterStatus' = None
    /\ sAlertCat' = None /\ sSystemStatus' = None
    /\ UNCHANGED <<exc, resolves, logVars, bhomVars, trVars, miniVars,
                   extraVars>>

AlertNext ==
    \/ RuleCallType \/ RuleSendTime \/ RuleLastTime \/ RuleMemname
    \/ RuleXtime \/ RuleXtimeOfLast \/ RuleAlertType \/ RuleSeverity
    \/ RuleStatus \/ RuleRunCounter \/ RuleDataCenter \/ RuleHostId
    \/ RuleComponentMachine \/ RuleMessage \/ RuleMessageX \/ RuleRunAs
    \/ RuleOther
    \/ PostJobUri \/ PostAgent \/ PostDataCenter \/ Finalize

vars == <<alertVars, logVars, bhomVars, trVars, miniVars, extraVars>>

----------------------------------------------------------------------------
(* Properties of trasnformtCtmAlert *)

Returned == pc = "done"
RawHas(k) == Has(rawAlert, k)
Raw(k) == Get(rawAlert, k)
Out(k) == Get(jCtmAlert, k)
RawText(k) == RawHas(k) /\ Raw(k) # None

\* The loop has just run the rule of field k.
JustRan(k) ==
    /\ pc \in {"loop", "job_uri"}
    /\ idx > 1
    /\ jCtmAlert.ord[idx - 1] = k

AgentAndJobMessage ==
    /\ RawText("message")
    /\ Contains(PatAgent, Raw("message"))
    /\ Contains(PatEndedNotOk, Raw("message"))

\* The alert has a field whose rule sets the category too.
OtherCategoryField == RawHas("Xtime") \/ RawHas("Message") \/ RawHas("run_as")

\* C1: a message that holds both "STATUS OF AGENT PLATFORM" and "Ended not
\* OK" is classified by the first pattern of the chain only: the message
\* rule leaves the category agent and an agent status, never the
\* failed-job rule's category job or status failed; the alert returned
\* never has the category job, and has the category agent when the message
\* is its only field with a category rule.
C1_FirstPatternWins ==
    AgentAndJobMessage =>
        /\ sAlertCat # <<"job">>
        /\ sSystemStatus # <<"failed">>
        /\ JustRan("message") =>
              /\ sAlertCat = <<"agent">>
              /\ sAgentStatus # None
        /\ Returned => Out("system_category") # <<"job">>
        /\ (Returned /\ ~OtherCategoryField) => Out("system_category") = <<"agent">>

C1_Witness ==
    /\ AgentAndJobMessage
    /\ ~OtherCategoryField
    /\ Returned
    /\ Out("system_category") = <<"agent">>

\* C2: once a rule has set the category, no later rule of the per-field
\* pass changes it.
C2_CategoryLocked ==
    [][sAlertCat # None => sAlertCat' = sAlertCat]_vars

\* C3: for the sentinel order id "00000" neither job_uri nor job_id is
\* added to the alert, in any state of the call.
C3_SentinelNoJobUri ==
    (RawHas("order_id") /\ Raw("order_id") = SentinelOrderId) =>
        /\ ~Has(jCtmAlert, "job_uri")
        /\ ~Has(jCtmAlert, "job_id")

\* The sentinel was read (by the run_counter rule or a job message) and the
\* alert returned.
C3_Witness ==
    /\ Returned
    /\ RawHas("order_id") /\ Raw("order_id") = SentinelOrderId
    /\ ctmOrderId = SentinelOrderId
    /\ ctmUpdateDate # None
    /\ ~Has(jCtmAlert, "job_uri")

\* C4: every alert returned whose order_id is present, not null and not the
\* sentinel has job_id = data_center:order_id and a job_uri.
C4_JobUriWheneverOrderId ==
    (Returned /\ RawText("order_id") /\ Raw("order_id") # SentinelOrderId) =>
        /\ Has(jCtmAlert, "job_uri")
        /\ Has(jCtmAlert, "job_id")
        /\ Out("job_id") = Concat(<<Out("data_center"), <<":">>, Raw("order_id")>>)

ScenarioB ==
    /\ Len(rawAlert.ord) = 5
    /\ \A k \in {"message", "order_id", "data_center", "job_name", "run_counter"} :
          RawText(k)
    /\ MessageRule(Raw("message")) = "ended"
    /\ Raw("order_id") # SentinelOrderId

\* C6: for the alert of Scenario B the call returns, with message_summary
\* "Job J failed", the category job and job_id "D:O".
C6_ScenarioB ==
    ScenarioB =>
        /\ pc # "raised"
        /\ Returned =>
              /\ Out("message_summary") = <<"Job ">> \o Raw("job_name") \o <<" failed">>
              /\ Out("system_category") = <<"job">>
              /\ Out("job_id") = Raw("data_center") \o <<":">> \o Raw("order_id")

----------------------------------------------------------------------------
(* transformCtmJobLog, lines 1686-1743 *)

\* s.strip(): without the white space at its ends.
RECURSIVE Strip(_)
Strip(s) ==
    IF s = <<>> THEN s
    ELSE IF IsSpace(Head(s)) THEN Strip(Tail(s))
    ELSE IF IsSpace(s[Len(s)]) THEN Strip(SubSeq(s, 1, Len(s) - 1))
    ELSE s

\* re.split(r'\s{2,}', s): cut at every run of two or more white-space
\* characters; a single blank or tab stays in its piece.
RECURSIVE ReSplitAcc(_, _, _, _, _)
ReSplitAcc(s, i, cur, ws, out) ==
    IF i > Len(s)
    THEN (IF CharLen(ws) >= 2 THEN Append(Append(out, cur), <<>>)
          ELSE Append(out, cur \o ws))
    ELSE IF IsSpace(s[i]) THEN ReSplitAcc(s, i + 1, cur, Append(ws, s[i]), out)
    ELSE IF CharLen(ws) >= 2 THEN ReSplitAcc(s, i + 1, <<s[i]>>, <<>>, Append(out, cur))
    ELSE ReSplitAcc(s, i + 1, cur \o ws \o <<s[i]>>, <<>>, out)
ReSplit(s) == ReSplitAcc(s, 1, <<>>, <<>>, <<>>)

\* s.split("\t"): cut at every tab.
RECURSIVE SplitTabAcc(_, _, _, _)
SplitTabAcc(s, i, cur, out) ==
    IF i > Len(s) THEN Append(out, cur)
    ELSE IF s[i] = Tab THEN SplitTabAcc(s, i + 1, <<>>, Append(out, cur))
    ELSE SplitTabAcc(s, i + 1, Append(cur, s[i]), out)
SplitTab(s) == SplitTabAcc(s, 1, <<>>, <<>>)

\* s.replace(c, "") for a one-character chunk c.
RECURSIVE Remove(_, _)
Remove(s, c) ==
    IF s = <<>> THEN s
    ELSE IF Head(s) = c THEN Remove(Tail(s), c)
    ELSE <<Head(s)>> \o Remove(Tail(s), c)

\* [s for s in data.splitlines(True) if s.strip("\r\n")]: the lines that
\* hold more than their line end.
RECURSIVE NonBlank(_)
NonBlank(ls) ==
    IF ls = <<>> THEN ls
    ELSE IF Head(ls) = <<>> THEN NonBlank(Tail(ls))
    ELSE <<Head(ls)>> \o NonBlank(Tail(ls))

\* list(map(str.strip, xList))
RECURSIVE StripAll(_)
StripAll(ls) ==
    IF ls = <<>> THEN ls ELSE <<Strip(Head(ls))>> \o StripAll(Tail(ls))

\* Lines of a job log.  The first is the line of the comment at line 1697
\* (blanks before the tab), the second the same with the tab alone.
LogTime == <<"12:48:07">>
LogDate == <<"2-Apr-2021">>
OrderedMessage ==
    W(<<"ORDERED", "JOB:24;", "DAILY", "FORCED,", "ODATE", "20210402">>)
EndedStamp ==
    <<"2", "0", "2", "1", "0", "4", "0", "2", "1", "2", "4", "8", "1", "0">>
EndedMessage ==
    W(<<"ENDED", "AT">>) \o <<Blank>> \o EndedStamp \o <<".", Blank>>
    \o W(<<"OSCOMPSTAT", "0">>) \o <<".", Blank>> \o W(<<"RUNCNT", "1">>)

LineOrdered ==
    LogTime \o <<Blank>> \o LogDate \o <<Blank2>> \o OrderedMessage
    \o <<Blank3, Tab, "5065">>
LineOrderedTab ==
    LogTime \o <<Blank>> \o LogDate \o <<Blank2>> \o OrderedMessage
    \o <<Tab, "5065">>
LineEnded ==
    LogTime \o <<Blank>> \o LogDate \o <<Blank2>> \o EndedMessage
    \o <<Tab, "5100">>
\* A line without the tab and the code after it.
LineNoCode ==
    LogTime \o <<Blank>> \o LogDate \o <<Blank2>> \o OrderedMessage
\* A line of one token.
LineOneToken == LogTime
\* A line without a run of two or more white-space characters.
LineSingleBlanks ==
    LogTime \o <<Blank>> \o LogDate \o <<Blank>> \o OrderedMessage
    \o <<Tab, "5065">>
\* A job-ended line whose message stops after the time stamp.
LineEndedShort ==
    LogTime \o <<Blank>> \o LogDate \o <<Blank2>>
    \o W(<<"ENDED", "AT">>) \o <<Blank>> \o EndedStamp \o <<Tab, "5100">>
LineBlank == <<>>

MalformedLines == {LineNoCode, LineOneToken, LineSingleBlanks, LineEndedShort}

LogLines ==
    {LineOrdered, LineOrderedTab, LineEnded, LineBlank} \cup MalformedLines

\* The longest log text, in lines.
MaxLines == 3

LogTexts == UNION {[1..n -> LogLines] : n \in 0..MaxLines}

LogInit ==
    /\ logData \in LogTexts
    /\ yList = <<>>
    /\ logI = 0
    /\ log_list = <<>>
    /\ logPc = "start"
    /\ logExc = None
    /\ logResult = None

LogIdle ==
    /\ logData = <<>>
    /\ yList = <<>>
    /\ logI = 0
    /\ log_list = <<>>
    /\ logPc = "idle"
    /\ logExc = None
    /\ logResult = None

\* What no step of transformCtmJobLog changes.
logFrame == <<logData, alertVars, bhomVars, trVars, miniVars, extraVars>>

\* Lines 1687-1695.
LogStart ==
    /\ logPc = "start"
    /\ yList' = StripAll(NonBlank(logData))
    /\ logPc' = "lines"
    /\ UNCHANGED <<logI, log_list, logExc, logResult, logFrame>>

\* The record without the fields of a job-ended line.
LogRecordNoEnded(item) ==
    LET sTemp == ReSplit(item)
        sTime == Item(Split(item), 0)
        sDate == Item(Split(item), 1)
        part == Item(sTemp, 1)
        sMessage == IF IsError(part) THEN part ELSE Item(SplitTab(part), 0)
        sCtmCode == Item(SplitTab(item), 1)
        err == FirstError(<<sTime, sDate, sMessage, sCtmCode>>)
    IN  IF err # None THEN err
        ELSE PutAll(EmptyDict,
                    <<<<"time", sTime>>, <<"date", sDate>>,
                      <<"message", sMessage>>, <<"code", sCtmCode>>>>)

\* Lines 1699-1717: the record of one line, or the exception it raises.
LogRecord(item) ==
    LET sTemp == ReSplit(item)
        sTime == Item(Split(item), 0)
        sDate == Item(Split(item), 1)
        part == Item(sTemp, 1)
        sMessage == IF IsError(part) THEN part ELSE Item(SplitTab(part), 0)
        sCtmCode == Item(SplitTab(item), 1)
        xTemp == Split(sMessage)
        stat == Item(xTemp, 4)
        count == Item(xTemp, 6)
        ended == Item(xTemp, 2)
        err == FirstError(<<sTime, sDate, sMessage, sCtmCode>>)
        err5100 == FirstError(<<stat, count, ended>>)
        base == <<<<"time", sTime>>, <<"date", sDate>>,
                  <<"message", sMessage>>, <<"code", sCtmCode>>>>
    IN  IF err # None THEN err
        ELSE IF sCtmCode # <<"5100">> THEN PutAll(EmptyDict, base)
        ELSE IF err5100 # None THEN err5100
        ELSE PutAll(EmptyDict,
                    <<<<"oscompstat", Remove(stat, ".")>>,
                      <<"run_count", count>>,
                      <<"ended", extractCtmAlertDate(Remove(ended, "."))>>>>
                    \o base)

\* Lines 1698-1722: one turn of the loop over the lines.
LogLine ==
    /\ logPc = "lines"
    /\ logI < Len(yList)
    /\ LET log_data == LogRecord(yList[logI + 1])
       IN  IF IsError(log_data)
           THEN /\ logPc' = "raised"
                /\ logExc' = log_data
                /\ UNCHANGED <<logI, log_list>>
           ELSE /\ log_list' = Append(log_list, [entry |-> logI, data |-> log_data])
                /\ logI' = logI + 1
                /\ UNCHANGED <<logPc, logExc>>
    /\ UNCHANGED <<yList, logResult, logFrame>>

\* The text '{"count":<count>,"status":<status>,"entries":[<entries>]}',
\* status being the text of a literal.
Envelope(count, status, entries) ==
    [count |-> count, status |-> status, entries |-> entries]

\* str(v) for v in True, False, None: no literal of JSON.
PyTrue == "True"
PyFalse == "False"
PyNone == "None"

\* Whether the text is JSON: its literals are true, false and null.
IsJson(env) == env.status \in {"true", "false", "null"}

\* w3rkstatt.jsonValidator(data): whether data is JSON text.
jsonValidator(jData) == IsJson(jData)

\* json.loads(text)
JsonLoads(jData) == IF IsJson(jData) THEN jData ELSE JSONDecodeError

\* w3rkstatt.dTranslate4Json(data): the text with Python's literals
\* replaced by those of JSON.
JsonLiteral(lit) ==
    CASE lit = PyTrue -> "true"
      [] lit = PyFalse -> "false"
      [] lit = PyNone -> "null"
      [] OTHER -> lit
dTranslate4Json(env) == [env EXCEPT !.status = JsonLiteral(@)]

\* Lines 1724-1743: the envelope.  The text with str(sJobLogStatus) in it
\* is validated; when it is not valid it is wrapped in a second envelope
\* of count 1 and returned as translated text.
LogEnvelope ==
    /\ logPc = "lines"
    /\ logI = Len(yList)
    /\ LET sJobLogStatus == IF logI = 0 THEN PyNone ELSE PyTrue
           jData == IF logI = 0 THEN Envelope(0, sJobLogStatus, <<>>)
                    ELSE Envelope(logI, sJobLogStatus, <<log_list>>)
           wrapped == Envelope(1, sJobLogStatus, <<dTranslate4Json(jData)>>)
       IN  IF jsonValidator(jData)
           THEN IF IsError(JsonLoads(jData))
                THEN /\ logPc' = "raised"
                     /\ logExc' = JsonLoads(jData)
                     /\ UNCHANGED logResult
                ELSE /\ logResult' = JsonLoads(jData)
                     /\ logPc' = "done"
                     /\ UNCHANGED logExc
           ELSE /\ logResult' = dTranslate4Json(wrapped)
                /\ logPc' = "done"
                /\ UNCHANGED logExc
    /\ UNCHANGED <<yList, logI, log_list, logFrame>>

LogNext == LogStart \/ LogLine \/ LogEnvelope

----------------------------------------------------------------------------
(* transformCtmJobLogMini, lines 1746-1853 *)

\* The text is the str() of a bytes value: its line ends and tabs are the
\* two characters backslash-n and backslash-t, and it may stand between
\* b" and ".
EscNl == "\\n"
EscTab == "\\t"
Quote == "\""
BytesOpen == "b\""

\* s.split(c) for a chunk c: the pieces between the places of c.
SplitAt(s, c) ==
    LET seps == {i \in 1..Len(s) : s[i] = c}
        n == Cardinality(seps)
        Cut(k) ==
            IF k = 0 THEN 0
            ELSE IF k = n + 1 THEN Len(s) + 1
            ELSE CHOOSE i \in seps : Cardinality({j \in seps : j < i}) = k - 1
    IN  [k \in 1..(n + 1) |-> SubSeq(s, Cut(k - 1) + 1, Cut(k) - 1)]

\* s.replace(c, d) for chunks c and d.
RECURSIVE Replace(_, _, _)
Replace(s, c, d) ==
    IF s = <<>> THEN s
    ELSE <<IF Head(s) = c THEN d ELSE Head(s)>> \o Replace(Tail(s), c, d)

\* s.strip("0")
RECURSIVE StripZeros(_)
StripZeros(s) ==
    IF s = <<>> THEN s
    ELSE IF Head(s) = "0" THEN StripZeros(Tail(s))
    ELSE IF s[Len(s)] = "0" THEN StripZeros(SubSeq(s, 1, Len(s) - 1))
    ELSE s

\* s.startswith(pre)
StartsWith(s, pre) == Len(s) >= Len(pre) /\ SubSeq(s, 1, Len(pre)) = pre

\* str(i).zfill(4), for i below ten.
Digits == <<"0", "1", "2", "3", "4", "5", "6", "7", "8", "9">>
ZFill4(i) == <<"0", "0", "0", Digits[i + 1]>>

\* Lines 1752-1757: the text between b" and the n of the last escaped
\* line end before the closing quote; the empty text when the wrapper has
\* no such line end (find gives -1, the slice is data[2:0]).
FindNlQuote(data, j) ==
    IF \E k \in j..(Len(data) - 1) : data[k] = EscNl /\ data[k + 1] = Quote
    THEN CHOOSE k \in j..(Len(data) - 1) :
            /\ data[k] = EscNl /\ data[k + 1] = Quote
            /\ \A m \in j..(k - 1) : ~(data[m] = EscNl /\ data[m + 1] = Quote)
    ELSE 0
Unwrap(data) ==
    IF StartsWith(data, <<BytesOpen>>)
    THEN SubSeq(data, 2, FindNlQuote(data, 2))
    ELSE data

\* Lines of a mini job log.
HeaderPrefix == W(<<"Event", "Time">>)
FailedText == W(<<"Failed", "to", "get", "job", "log">>)
MiniHeader ==
    HeaderPrefix \o <<Blank2>> \o <<"Message">> \o <<Blank2>> \o <<"Code">>
MiniOrdered ==
    LogTime \o <<Blank>> \o LogDate \o <<Blank2>> \o OrderedMessage
    \o <<Blank3, EscTab, "5065">>
MiniOrderedTab ==
    LogTime \o <<Blank>> \o LogDate \o <<Blank2>> \o OrderedMessage
    \o <<EscTab, "5065">>
MiniEnded ==
    LogTime \o <<Blank>> \o LogDate \o <<Blank2>> \o EndedMessage
    \o <<EscTab, "5100">>
\* A job-ended line of the tenth run.
EndedMessage10 == EndedMessage \o <<"0">>
MiniEnded10 ==
    LogTime \o <<Blank>> \o LogDate \o <<Blank2>> \o EndedMessage10
    \o <<EscTab, "5100">>
MiniFailed ==
    LogTime \o <<Blank>> \o LogDate \o <<Blank2>> \o FailedText
MiniFailedPlain == FailedText
MiniNoCode ==
    LogTime \o <<Blank>> \o LogDate \o <<Blank2>> \o OrderedMessage

MiniLines ==
    {MiniHeader, MiniOrdered, MiniOrderedTab, MiniEnded, MiniEnded10,
     MiniFailed, MiniFailedPlain, MiniNoCode, LineBlank}

\* The lines joined by escaped line ends.
RECURSIVE JoinEsc(_)
JoinEsc(ls) ==
    IF ls = <<>> THEN <<>>
    ELSE IF Len(ls) = 1 THEN ls[1]
    ELSE ls[1] \o <<EscNl>> \o JoinEsc(Tail(ls))

\* The text as it is, as the str() of bytes that end with a line end, and
\* as the str() of bytes that do not.
Wrappers == {"plain", "bytes", "bytesOpenEnd"}
MiniText(ls, w) ==
    CASE w = "plain" -> JoinEsc(ls)
      [] w = "bytes" -> <<BytesOpen>> \o JoinEsc(ls) \o <<EscNl, Quote>>
      [] w = "bytesOpenEnd" -> <<BytesOpen>> \o JoinEsc(ls) \o <<Quote>>

RunCounters ==
    {<<"0", "0", "0", "0", "1">>, <<"0", "0", "0", "0", "2">>,
     <<"0", "0", "0", "1", "0">>}

MiniInit ==
    /\ \E n \in 0..MaxLines, w \in Wrappers :
          \E ls \in [1..n -> MiniLines] : miniData = MiniText(ls, w)
    /\ runCounter \in RunCounters
    /\ pList = <<>>
    /\ miniIdx = 0
    /\ miniI = 0
    /\ mini_list = <<>>
    /\ miniEntry = Unbound
    /\ miniCtmCode = Unbound
    /\ miniStatus = FALSE
    /\ miniPc = "start"
    /\ miniExc = None
    /\ miniResult = None

MiniIdle ==
    /\ miniData = <<>>
    /\ runCounter = <<>>
    /\ pList = <<>>
    /\ miniIdx = 0
    /\ miniI = 0
    /\ mini_list = <<>>
    /\ miniEntry = Unbound
    /\ miniCtmCode = Unbound
    /\ miniStatus = FALSE
    /\ miniPc = "idle"
    /\ miniExc = None
    /\ miniResult = None

\* What no step of transformCtmJobLogMini changes.
miniFrame ==
    <<miniData, runCounter, alertVars, logVars, bhomVars, trVars, extraVars>>

\* Lines 1747-1764.
MiniStart ==
    /\ miniPc = "start"
    /\ pList' = SplitAt(Unwrap(miniData), EscNl)
    /\ miniPc' = "lines"
    /\ UNCHANGED <<miniIdx, miniI, mini_list, miniEntry, miniCtmCode,
                   miniStatus, miniExc, miniResult, miniFrame>>

\* Line 1771: whether the loop looks at the piece.
MiniParsed(item) == CharLen(item) > 1 /\ ~StartsWith(item, HeaderPrefix)

\* Lines 1772-1791: the code and the message of a piece, or the exception
\* the lines raise.  The code keeps its earlier value when the piece has
\* none.
MiniFields(item, code) ==
    LET sTemp == ReSplit(item)
        sTime == Item(Split(item), 0)
        sDate == Item(Split(item), 1)
        first == Item(sTemp, 1)
        err == FirstError(<<sTime, sDate, first>>)
        sCodeTmp == IF Len(sTemp) = 3 THEN sTemp[3] ELSE SplitAt(first, EscTab)
        sCtmCode ==
            IF Len(sTemp) = 3
            THEN (IF CharLen(sCodeTmp) > 1
                  THEN Item(SplitAt(sCodeTmp, EscTab), 1) ELSE code)
            ELSE (IF Len(sCodeTmp) > 1 THEN sCodeTmp[2] ELSE code)
        sMessage ==
            IF Len(sTemp) # 3 /\ Len(sCodeTmp) > 1 THEN sCodeTmp[1] ELSE first
    IN  IF err # None THEN [err |-> err]
        ELSE IF IsError(sCtmCode) THEN [err |-> sCtmCode]
        ELSE [err |-> None, time |-> sTime, date |-> sDate, code |-> sCtmCode,
              message |-> Replace(sMessage, "'", "--")]

\* Lines 1801-1805: one numbered failure entry.
FailureEntry(i, sMessage) ==
    <<"\"entry-">> \o ZFill4(i) \o <<"\":\"">> \o sMessage \o <<"\"">>

\* Lines 1767-1839: one turn of the loop over the pieces.
MiniLine ==
    /\ miniPc = "lines"
    /\ miniIdx < Len(pList)
    /\ miniIdx' = miniIdx + 1
    /\ LET piece == pList[miniIdx + 1]
           f == MiniFields(piece, miniCtmCode)
           ctmJobRunCounter == StripZeros(runCounter)
           xTemp == Split(f.message)
           zTemp == Item(xTemp, 6)
           base == <<<<"time", f.time>>, <<"date", f.date>>,
                     <<"message", f.message>>, <<"code", f.code>>>>
           ended ==
               <<<<"oscompstat", Remove(Item(xTemp, 4), ".")>>,
                 <<"run_count", zTemp>>,
                 <<"ended", extractCtmAlertDate(Remove(Item(xTemp, 2), "."))>>>>
           Leave(e) ==
               /\ miniPc' = "raised"
               /\ miniExc' = e
               /\ UNCHANGED <<miniI, mini_list, miniEntry, miniCtmCode, miniStatus>>
           Keep(fields) ==
               /\ mini_list' = Append(mini_list,
                                      [entry |-> miniI,
                                       data |-> PutAll(EmptyDict, fields)])
               /\ miniI' = miniI + 1
               /\ miniCtmCode' = f.code
               /\ miniStatus' = TRUE
               /\ UNCHANGED <<miniEntry, miniPc, miniExc>>
       IN  IF ~MiniParsed(piece)
           THEN UNCHANGED <<miniI, mini_list, miniEntry, miniCtmCode,
                            miniStatus, miniPc, miniExc>>
           ELSE IF f.err # None THEN Leave(f.err)
           ELSE IF Contains(FailedText, f.message)
           THEN IF miniI # 0 /\ miniEntry = Unbound
                THEN Leave(UnboundLocalError)
                ELSE /\ miniEntry' =
                            IF miniI = 0 THEN FailureEntry(miniI, f.message)
                            ELSE miniEntry \o <<",">>
                                 \o FailureEntry(miniI, f.message)
                     /\ miniI' = miniI + 1
                     /\ miniCtmCode' = f.code
                     /\ UNCHANGED <<mini_list, miniStatus, miniPc, miniExc>>
           ELSE IF f.code = Unbound THEN Leave(UnboundLocalError)
           ELSE IF f.code # <<"5100">> THEN Keep(base)
           ELSE IF IsError(zTemp) THEN Leave(zTemp)
           ELSE IF zTemp = ctmJobRunCounter THEN Keep(ended \o base)
           ELSE /\ miniI' = miniI + 1
                /\ miniCtmCode' = f.code
                /\ miniStatus' = TRUE
                /\ UNCHANGED <<mini_list, miniEntry, miniPc, miniExc>>
    /\ UNCHANGED <<pList, miniResult, miniFrame>>

\* str(b) for a bool.
PyBool(b) == IF b THEN PyTrue ELSE PyFalse

\* Lines 1841-1853: the envelope.
MiniEnvelope ==
    /\ miniPc = "lines"
    /\ miniIdx = Len(pList)
    /\ IF miniStatus
       THEN /\ miniResult' =
                   dTranslate4Json(Envelope(miniI, PyBool(miniStatus), <<mini_list>>))
            /\ miniPc' = "done"
            /\ UNCHANGED miniExc
       ELSE IF miniEntry = Unbound
       THEN /\ miniPc' = "raised"
            /\ miniExc' = UnboundLocalError
            /\ UNCHANGED miniResult
       ELSE /\ miniResult' =
                   dTranslate4Json(
                       Envelope(miniI, PyBool(miniStatus),
                                <<<<"{">> \o miniEntry \o <<"}">>>>))
            /\ miniPc' = "done"
            /\ UNCHANGED miniExc
    /\ UNCHANGED <<pList, miniIdx, miniI, mini_list, miniEntry, miniCtmCode,
                   miniStatus, miniFrame>>

MiniNext == MiniStart \/ MiniLine \/ MiniEnvelope

----------------------------------------------------------------------------
(* transformCtmJobOutput, lines 1643-1683 *)

\* Lines of a job output.  The two of the comment at line 1655, a failure
\* line, a line with an apostrophe and one without any signature.
PatFailed == <<"Failed">>
PatRejected == <<"rejected">>
PatNotAuthorized == W(<<"USER", "NOT", "AUTHORIZED">>)
OutRejected ==
    <<"Request", Blank2>> \o PatRejected \o <<Blank>> \o W(<<"by", "Data", "Center">>)
OutNotAuthorized == <<"ECS3010", Blank>> \o PatNotAuthorized
OutFailed == PatFailed \o <<Blank>> \o W(<<"to", "get", "job", "output">>)
OutQuoted == <<"job", "'", "s", Blank, "output">>
OutPlain == W(<<"job", "ended">>)

OutLines ==
    {OutRejected, OutNotAuthorized, OutFailed, OutQuoted, OutPlain, LineBlank}

OutTexts == UNION {[1..n -> OutLines] : n \in 0..MaxLines}

OutInit ==
    /\ outData \in OutTexts
    /\ outList = <<>>
    /\ outI = 0
    /\ jValue = EmptyDict
    /\ outPc = "start"
    /\ outResult = None

OutIdle ==
    /\ outData = <<>>
    /\ outList = <<>>
    /\ outI = 0
    /\ jValue = EmptyDict
    /\ outPc = "idle"
    /\ outResult = None


\* What no step of transformCtmJobOutput changes.
coreVars == <<alertVars, logVars, bhomVars, trVars, miniVars>>
outFrame == <<outData, coreVars, connVars, pollVars, jobStatVars, crqVars>>

\* Lines 1644-1650.
OutStart ==
    /\ outPc = "start"
    /\ outList' = StripAll(NonBlank(outData))
    /\ outPc' = "lines"
    /\ UNCHANGED <<outI, jValue, outResult, outFrame>>

\* Lines 1651-1653: one turn of the loop over the lines.
OutEntry ==
    /\ outPc = "lines"
    /\ outI < Len(outList)
    /\ jValue' = Put(jValue, <<"entry-">> \o ZFill4(outI),
                     Remove(outList[outI + 1], "'"))
    /\ outI' = outI + 1
    /\ UNCHANGED <<outList, outPc, outResult, outFrame>>

\* Lines 1659-1673: the status, as str() writes it.
\* sStatus is False from line 1648 on, and the branch of one line assigns
\* it (False again) only when the line contains "Failed".
OutStatus(yl, iCounter) ==
    LET sStatus == PyFalse
    IN  IF iCounter = 0 THEN PyNone
        ELSE IF iCounter = 1
        THEN (IF Contains(PatFailed, yl[1]) THEN PyFalse ELSE sStatus)
        ELSE IF iCounter = 2
        THEN (IF Contains(PatRejected, yl[1]) /\ Contains(PatNotAuthorized, yl[2])
              THEN PyFalse ELSE PyTrue)
        ELSE PyTrue

\* Lines 1656-1683: the envelope.
OutEnvelope ==
    /\ outPc = "lines"
    /\ outI = Len(outList)
    /\ LET iCounter == Len(jValue.ord)
           xData == Envelope(iCounter, OutStatus(outList, iCounter), <<jValue>>)
       IN  outResult' = JsonLoads(dTranslate4Json(xData))
    /\ outPc' = "done"
    /\ UNCHANGED <<outList, outI, jValue, outFrame>>

OutNext == OutStart \/ OutEntry \/ OutEnvelope

----------------------------------------------------------------------------
(* CtmConnection, lines 115-210, and delCtmConnection, lines 731-732 *)

\* The most logout() calls made on one object.
MaxCalls == 5

\* What a call of session_api.do_logout does: it returns, it raises the
\* ApiException of the client library, or it raises an error of the
\* transport that logout() does not catch.
MaxRetryError == <<"$MaxRetryError">>
LogoutOutcomes == {"ok", "ApiException", "MaxRetryError"}

\* The object after __init__ returned: do_login succeeded (line 174), so
\* logged_in is True and session_api is set.
ConnInit ==
    /\ logged_in = TRUE
    /\ connPc = "live"
    /\ apiLog = <<>>
    /\ logoutCalls = 0
    /\ connExc = None

ConnIdle ==
    /\ logged_in = FALSE
    /\ connPc = "idle"
    /\ apiLog = <<>>
    /\ logoutCalls = 0
    /\ connExc = None

connFrame == <<coreVars, outVars, pollVars, jobStatVars, crqVars>>

\* A variant of the body of logout() without the test of logged_in.
LogoutBodyUnguarded(outcome) ==
    /\ apiLog' = Append(apiLog, [logged_in |-> logged_in, outcome |-> outcome])
    /\ logged_in' = IF outcome = "ok" THEN FALSE ELSE logged_in
    /\ connExc' = CASE outcome = "ok" -> None
                    [] outcome = "ApiException" -> TypeError
                    [] OTHER -> MaxRetryError

\* Lines 200-210, the body of logout(): do_logout is called when logged_in
\* is true; when it returns logged_in becomes False; its ApiException is
\* caught and the raise of a str that follows is a TypeError; any other
\* exception leaves logout() as it is.
LogoutBody(outcome) ==
    IF logged_in
    THEN /\ apiLog' = Append(apiLog, [logged_in |-> logged_in, outcome |-> outcome])
         /\ logged_in' = IF outcome = "ok" THEN FALSE ELSE logged_in
         /\ connExc' = CASE outcome = "ok" -> None
                         [] outcome = "ApiException" -> TypeError
                         [] OTHER -> MaxRetryError
    ELSE /\ connExc' = None
         /\ UNCHANGED <<apiLog, logged_in>>

\* logout(), called by delCtmConnection (lines 731-732) or directly.
Logout ==
    /\ connPc = "live"
    /\ logoutCalls < MaxCalls
    /\ \E outcome \in LogoutOutcomes : LogoutBody(outcome)
    /\ logoutCalls' = logoutCalls + 1
    /\ UNCHANGED <<connPc, connFrame>>

\* Lines 184-198, __del__: session_api is set, so logout() is called; only
\* ImportError is caught, which logout() does not raise.
Del ==
    /\ connPc = "live"
    /\ \E outcome \in LogoutOutcomes : LogoutBody(outcome)
    /\ connPc' = "deleted"
    /\ UNCHANGED <<logoutCalls, connFrame>>

ConnNext == Logout \/ Del

----------------------------------------------------------------------------
(* ctmTest, lines 735-776, with getCtmReportStatus, lines 820-858 *)

\* The most polls of one call the model follows.
MaxPolls == 4

\* The statuses of a report: two of a report under way, the one of a
\* finished report, one of a report that failed.
ReportStatuses ==
    {<<"PROCESSING">>, <<"PENDING">>, <<"SUCCEEDED">>, <<"FAILED">>}

\* What getCtmReportStatus gives: the status of the report, or, when the
\* API call raises ApiException, the UnboundLocalError of its
\* `return json_data` (line 858; json_data is assigned in the try only).
PollOutcomes == ReportStatuses \cup {UnboundLocalError}

PollInit ==
    /\ ctmReportStatus = None
    /\ polled = <<>>
    /\ pollPc = "start"
    /\ pollExc = None

PollIdle ==
    /\ ctmReportStatus = None
    /\ polled = <<>>
    /\ pollPc = "idle"
    /\ pollExc = None

pollFrame == <<coreVars, outVars, connVars, jobStatVars, crqVars>>

\* One call of getCtmReportStatus and the extraction of the status (lines
\* 739-741 and 745-748).
Poll(outcome) ==
    IF IsError(outcome)
    THEN /\ pollPc' = "raised"
         /\ pollExc' = outcome
         /\ UNCHANGED <<ctmReportStatus, polled>>
    ELSE /\ ctmReportStatus' = outcome
         /\ polled' = Append(polled, outcome)
         /\ pollPc' = "loop"
         /\ UNCHANGED pollExc

\* A loop that polls again while the report is under way only.
WhileUnderWay(status) ==
    status = <<"PROCESSING">> \/ status = <<"PENDING">>

\* Lines 743-744: the condition of the while loop.
WhileCondition(status) ==
    \/ status = <<"PROCESSING">>
    \/ status = <<"PENDING">>
    \/ status # <<"SUCCEEDED">>

\* Lines 736-741: the report is started and polled once.
PollFirst ==
    /\ pollPc = "start"
    /\ \E outcome \in PollOutcomes : Poll(outcome)
    /\ UNCHANGED pollFrame

\* Lines 743-748: the condition holds and the body polls again.
PollAgain ==
    /\ pollPc = "loop"
    /\ WhileCondition(ctmReportStatus)
    /\ Len(polled) < MaxPolls
    /\ \E outcome \in PollOutcomes : Poll(outcome)
    /\ UNCHANGED pollFrame

\* Lines 743-744 and 766: the condition fails and the loop is left.
PollExit ==
    /\ pollPc = "loop"
    /\ ~WhileCondition(ctmReportStatus)
    /\ pollPc' = "report"
    /\ UNCHANGED <<ctmReportStatus, polled, pollExc, pollFrame>>

PollNext == PollFirst \/ PollAgain \/ PollExit

----------------------------------------------------------------------------
(* getCtmJobStatus, lines 650-705 *)

Servers == {<<"ctmsrv">>, <<"ctmprod">>, <<"ctmtest">>}
OrderIds ==
    {SentinelOrderId, OrderId, <<"0000a">>, <<"00001">>, <<"0">>, <<>>}

\* What get_jobs_status_by_filter does: it gives a status object, it
\* gives an object whose str() is empty, or it raises ApiException, with
\* or without the text "HTTP response body:" in it.
JobStatuses == {"Executing", "Ended OK"}
ApiOutcomes ==
    {[kind |-> "status", status |-> s] : s \in JobStatuses}
    \cup {[kind |-> k, status |-> ""] :
             k \in {"empty", "ApiException", "ApiExceptionNoBody"}}

\* A local name that no assignment has reached yet.
Unassigned == [assigned |-> FALSE, value |-> EmptyDict]
Assigned(v) == [assigned |-> TRUE, value |-> v]

JobStatInit ==
    /\ ctmServer \in Servers
    /\ ctmOrderID \in OrderIds
    /\ apiCalls = <<>>
    /\ results = <<>>
    /\ jResults = Unassigned
    /\ jobPc = "start"
    /\ jobExc = None

JobStatIdle ==
    /\ ctmServer = <<>>
    /\ ctmOrderID = <<>>
    /\ apiCalls = <<>>
    /\ results = <<>>
    /\ jResults = Unassigned
    /\ jobPc = "idle"
    /\ jobExc = None

jobStatFrame ==
    <<ctmServer, ctmOrderID, coreVars, outVars, connVars, pollVars, crqVars>>

\* Lines 661-665: results = "" and the test of the sentinel order id.
JobStatStart ==
    /\ jobPc = "start"
    /\ results' = <<>>
    /\ jobPc' = IF ctmOrderID = <<"00000">> THEN "return" ELSE "call"
    /\ UNCHANGED <<apiCalls, jResults, jobExc, jobStatFrame>>

\* Lines 667-703: the call of the scheduler API.  A status object is
\* turned into a dict and translated; an object with an empty str() gives
\* the empty dict.  On ApiException the note stays {}: without the body
\* marker split(...)[1] raises IndexError, with it json.loads is given the
\* list of re.findall and raises TypeError, and the bare except passes;
\* results takes the note and jResults is not assigned.
JobStatCall ==
    /\ jobPc = "call"
    /\ LET cmtJobID == ctmServer \o <<":">> \o ctmOrderID
       IN  /\ apiCalls' = Append(apiCalls, cmtJobID)
           /\ \E o \in ApiOutcomes :
                 CASE o.kind = "status" ->
                        /\ results' = <<o.status>>
                        /\ jResults' =
                              Assigned(dTranslate4Json(
                                  [jobId |-> cmtJobID, status |-> o.status]))
                   [] o.kind = "empty" ->
                        /\ results' = <<>>
                        /\ jResults' = Assigned(EmptyDict)
                   [] OTHER ->
                        /\ results' = <<"{}">>
                        /\ UNCHANGED jResults
    /\ jobPc' = "return"
    /\ UNCHANGED <<jobExc, jobStatFrame>>

\* Line 705: return jResults.
JobStatReturn ==
    /\ jobPc = "return"
    /\ IF jResults.assigned
       THEN jobPc' = "done" /\ UNCHANGED jobExc
       ELSE jobPc' = "raised" /\ jobExc' = UnboundLocalError
    /\ UNCHANGED <<apiCalls, results, jResults, jobStatFrame>>

JobStatNext == JobStatStart \/ JobStatCall \/ JobStatReturn

----------------------------------------------------------------------------
(* transformCtmBHOM, lines 2062-2344 *)

\* d[k] on a Python dict: KeyError when the key is missing.
Field(d, k) == IF Has(d, k) THEN Get(d, k) ELSE KeyError

\* s.split(':')[0]: the text before the first colon; AttributeError on None.
RECURSIVE BeforeColon(_)
BeforeColon(s) ==
    IF s = <<>> \/ Head(s) = ":" THEN <<>>
    ELSE <<Head(s)>> \o BeforeColon(Tail(s))
SplitClass(v) ==
    IF IsError(v) THEN v
    ELSE IF v = None THEN AttributeError
    ELSE BeforeColon(v)

\* Lines 2270-2272: the class is stripped unless it is empty or starts
\* with "None".
StripClass(v) ==
    IF IsError(v) THEN v
    ELSE IF v # <<>> /\ Head(v) # "None" THEN Strip(v)
    ELSE v

\* 'BMC_ComputerSystem:' + host_id
ComputerAlias(v) ==
    IF IsError(v) THEN v ELSE Concat(<<<<"BMC_ComputerSystem", ":">>, v>>)

\* The value one assignment to event_data stores, or the exception its
\* right-hand side raises.
StepValue(alert, step) ==
    CASE step[2] = "const" -> step[3]
      [] step[2] = "copy" -> Field(alert, step[3])
      [] step[2] = "class" -> SplitClass(Field(alert, "system_class"))
      [] step[2] = "classStrip" ->
            StripClass(SplitClass(Field(alert, "system_class")))
      [] step[2] = "computer" -> ComputerAlias(Field(alert, "host_id"))

\* The assignments of a branch, in order, up to the first that raises.
RECURSIVE Build(_, _, _)
Build(alert, steps, ev) ==
    IF steps = <<>> THEN ev
    ELSE LET n == Len(steps)
             before == Build(alert, SubSeq(steps, 1, n - 1), ev)
             v == StepValue(alert, steps[n])
         IN  IF IsError(before) THEN before
             ELSE IF IsError(v) THEN v
             ELSE Put(before, steps[n][1], v)

Copy(k, from) == <<k, "copy", from>>
Const(k, v) == <<k, "const", v>>

\* Lines 2068-2128.
InfraSteps ==
    << Const("severity", <<"WARNING">>),
       Const("CLASS", <<"CTMX_EVENT">>),
       Copy("msg", "message_summary"),
       Copy("details", "message_notes"),
       Copy("source_identifier", "host_id"),
       Copy("source_hostname", "host_id"),
       Copy("source_address", "host_ip"),
       Copy("alias", "system_class"),
       Const("status", <<"OPEN">>),
       Const("priority", <<"PRIORITY_3">>),
       Copy("location", "data_center"),
       Copy("instancename", "host_id"),
       <<"cdmclass", "class", "">>,
       Copy("componentalias", "system_class"),
       Copy("system_category", "system_category"),
       Copy("system_status", "system_status"),
       Copy("ctmDataCenter", "data_center"),
       Copy("ctmUpdateType", "call_type"),
       Copy("ctmDataCenter", "data_center"),
       Copy("xctmCallType", "call_type"),
       Copy("xctmCompMachine", "Component_machine"),
       Copy("xctmCompName", "Component_name"),
       Copy("xctmCompType", "Component_type"),
       Copy("xctmCounter", "Counter"),
       Copy("xctmKey1", "Key1"),
       Copy("xctmKey2", "Key2"),
       Copy("xctmKey3", "Key3"),
       Copy("xctmKey4", "Key4"),
       Copy("xctmKey5", "Key5"),
       Copy("xctmMessage", "Message"),
       Copy("xctmMessageId", "Message_id"),
       Copy("xctmNote", "Note"),
       Copy("xctmSerial", "Serial"),
       Copy("xctmStatus", "Status"),
       Copy("xctmXSeverity", "Xseverity"),
       Copy("xctmXTime", "Xtime"),
       Copy("xctmXTimeOFLast", "Xtime_of_last") >>

\* Lines 2191-2239 and 2288-2334: the assignments the job branch and the
\* default branch share.
CtmSteps ==
    << Copy("ctmUpdateType", "call_type"),
       Copy("ctmAlertId", "alert_id"),
       Copy("ctmDataCenter", "data_center"),
       Copy("ctmMemName", "memname"),
       Copy("ctmOrderId", "order_id"),
       Copy("ctmSeverity", "severity"),
       Copy("ctmTime", "send_time"),
       Copy("ctmStatus", "status"),
       Copy("ctmNodeId", "host_id"),
       Copy("ctmJobName", "job_name"),
       Copy("ctmMessage", "message"),
       Copy("ctmApplication", "application"),
       Copy("ctmSubApplication", "sub_application"),
       Copy("ctmAlertType", "alert_type"),
       Copy("ctmClosedFromEM", "closed_from_em"),
       Copy("ctmTicketNumber", "ticket_number"),
       Copy("ctmRunCounter", "run_counter"),
       Const("ctmUser", <<"TBD">>),
       Copy("ctmUpdateTime", "send_time"),
       Copy("ctmNotes", "notes") >>

\* Lines 2169-2240.
JobSteps ==
    << Copy("severity", "severity"),
       Const("CLASS", <<"CTM_JOB">>),
       Copy("msg", "message_summary"),
       Copy("details", "message_notes"),
       Copy("source_identifier", "host_id"),
       Copy("source_hostname", "host_id"),
       Copy("source_address", "host_ip"),
       <<"alias", "computer", "">>,
       Const("status", <<"OPEN">>),
       Const("priority", <<"PRIORITY_3">>),
       Copy("location", "data_center"),
       Copy("instancename", "host_id"),
       Const("cdmclass", <<"BMC_ComputerSystem">>),
       <<"componentalias", "computer", "">>,
       Copy("system_category", "system_category"),
       Copy("system_status", "system_status") >>
    \o CtmSteps
    \o << Copy("ctmJobID", "job_id") >>

\* Lines 2253-2334.
CoreSteps ==
    << Copy("severity", "severity"),
       Const("CLASS", <<"CTM_EVENT">>),
       Copy("msg", "message_summary"),
       Copy("details", "message_notes"),
       Copy("source_identifier", "host_id"),
       Copy("source_hostname", "host_id"),
       Copy("source_address", "host_ip"),
       Copy("alias", "system_class"),
       Const("status", <<"OPEN">>),
       Const("priority", <<"PRIORITY_3">>),
       Copy("location", "data_center"),
       Copy("instancename", "host_id"),
       <<"cdmclass", "classStrip", "">>,
       Copy("componentalias", "system_class"),
       Copy("system_category", "system_category"),
       Copy("system_status", "system_status") >>
    \o CtmSteps

\* The keys the three branches read from the alert.
BhomAlertKeys ==
    << "message_summary", "message_notes", "host_id", "host_ip",
       "system_class", "data_center", "system_category", "system_status",
       "call_type", "Component_machine", "Component_name", "Component_type",
       "Counter", "Key1", "Key2", "Key3", "Key4", "Key5", "Message",
       "Message_id", "Note", "Serial", "Status", "Xseverity", "Xtime",
       "Xtime_of_last", "severity", "alert_id", "memname", "order_id",
       "send_time", "status", "job_name", "message", "application",
       "sub_application", "alert_type", "closed_from_em", "ticket_number",
       "run_counter", "notes", "job_id" >>

BhomHost == <<"host1">>
BhomClass == cdmclass \o <<":">> \o BhomHost \o <<":", "example.com">>

\* An alert holding every key, the value of a key being its name unless
\* the code looks into the value.
RECURSIVE FullAlertFrom(_)
FullAlertFrom(ks) ==
    IF ks = <<>> THEN EmptyDict
    ELSE LET k == Head(ks)
             v == CASE k = "system_class" -> BhomClass
                    [] k = "host_id" -> BhomHost
                    [] OTHER -> <<k>>
             rest == FullAlertFrom(Tail(ks))
         IN  [ord |-> <<k>> \o rest.ord, val |-> <<v>> \o rest.val]
FullAlert == FullAlertFrom(BhomAlertKeys)

\* d without the key k.
RECURSIVE Without(_, _)
Without(d, k) ==
    IF d.ord = <<>> THEN d
    ELSE LET rest == Without([ord |-> Tail(d.ord), val |-> Tail(d.val)], k)
         IN  IF Head(d.ord) = k THEN rest
             ELSE [ord |-> <<Head(d.ord)>> \o rest.ord,
                   val |-> <<Head(d.val)>> \o rest.val]

\* Alerts: complete; with a null class or host, as trasnformtCtmAlert
\* leaves them when nothing sets them; without the job id, as it returns
\* them for an alert without a run counter.
BhomAlerts ==
    { FullAlert,
      Put(FullAlert, "system_class", None),
      Put(FullAlert, "host_id", None),
      Without(FullAlert, "job_id") }

Categories == {<<"infrastructure">>, <<"job">>, <<"agent">>, <<"server">>}

\* The largest count of jobInfo and of jobConfig.
MaxCount == 2

\* The n-th name: the stem and n strokes.
RECURSIVE Nth(_, _)
Nth(stem, n) == IF n = 0 THEN <<stem>> ELSE Append(Nth(stem, n - 1), "'")
FolderName(n) == Nth("Folder", n)

\* entries[n-1] of jobInfo.
JobInfoEntry(n) ==
    PutAll(EmptyDict,
           << <<"folder", FolderName(n)>>, <<"folder_id", Nth("id", n)>>,
              <<"held", <<"false">>>>, <<"type", <<"Command">>>>,
              <<"cyclic", <<"false">>>> >>)

\* entries[n-1] of jobConfig: the definition of the folder, by its name.
JobConfigEntry(n) ==
    Put(EmptyDict, FolderName(n),
        Put(EmptyDict, "CreatedBy", Nth("owner", n)))

JobInfo(n) == [count |-> n, entries |-> [i \in 1..n |-> JobInfoEntry(i)]]
JobConfig(n) == [count |-> n, entries |-> [i \in 1..n |-> JobConfigEntry(i)]]


BhomInit ==
    /\ \E a \in BhomAlerts, n \in 0..MaxCount, m \in 0..MaxCount :
          bhomData = [alert |-> a, jobInfo |-> JobInfo(n),
                      jobConfig |-> JobConfig(m)]
    /\ category \in Categories
    /\ ctmFolder = Unbound
    /\ event_data = EmptyDict
    /\ bhomPc = "start"
    /\ bhomExc = None
    /\ bhomResult = None

BhomIdle ==
    /\ bhomData = [alert |-> EmptyDict, jobInfo |-> JobInfo(0),
                   jobConfig |-> JobConfig(0)]
    /\ category = None
    /\ ctmFolder = Unbound
    /\ event_data = EmptyDict
    /\ bhomPc = "idle"
    /\ bhomExc = None
    /\ bhomResult = None

\* What no step of transformCtmBHOM changes.
bhomFrame ==
    <<bhomData, category, alertVars, logVars, trVars, miniVars, extraVars>>

\* The event returned bare instead of in a list.
BhomFinishBare(ev) ==
    IF IsError(ev)
    THEN /\ bhomPc' = "raised"
         /\ bhomExc' = ev
         /\ UNCHANGED <<event_data, bhomResult>>
    ELSE /\ event_data' = ev
         /\ bhomResult' = <<>>
         /\ bhomPc' = "done"
         /\ UNCHANGED bhomExc

\* The end of a branch: the event in a list of its own is returned, or the
\* exception leaves the function.
BhomFinish(ev) ==
    IF IsError(ev)
    THEN /\ bhomPc' = "raised"
         /\ bhomExc' = ev
         /\ UNCHANGED <<event_data, bhomResult>>
    ELSE /\ event_data' = ev
         /\ bhomResult' = <<ev>>
         /\ bhomPc' = "done"
         /\ UNCHANGED bhomExc

\* Lines 2067-2139.
BhomInfra ==
    /\ bhomPc = "start"
    /\ category = <<"infrastructure">>
    /\ BhomFinish(Build(bhomData.alert, InfraSteps, event_data))
    /\ UNCHANGED <<ctmFolder, bhomFrame>>

\* Lines 2141-2162: the counts are read and the projections of jobInfo
\* made when its count is positive.
BhomJobInfo ==
    /\ bhomPc = "start"
    /\ category = <<"job">>
    /\ LET ctmjobInfoCount == bhomData.jobInfo.count
           entry == bhomData.jobInfo.entries[1]
       IN  IF ctmjobInfoCount > 0
           THEN /\ ctmFolder' = Field(entry, "folder")
                /\ event_data' =
                       PutAll(event_data,
                              << <<"ctmFolder", Field(entry, "folder")>>,
                                 <<"ctmFolderID", Field(entry, "folder_id")>>,
                                 <<"ctmJobHeld", Field(entry, "held")>>,
                                 <<"ctmJobType", Field(entry, "type")>>,
                                 <<"ctmJobCyclic", Field(entry, "cyclic")>> >>)
           ELSE UNCHANGED <<ctmFolder, event_data>>
    /\ bhomPc' = "jobConfig"
    /\ UNCHANGED <<bhomExc, bhomResult, bhomFrame>>

\* Lines 2164-2167: the owner is read from the definition of ctmFolder
\* when the count of jobConfig is positive.
BhomJobConfig ==
    /\ bhomPc = "jobConfig"
    /\ LET ctmjobConfigCount == bhomData.jobConfig.count
           entry == bhomData.jobConfig.entries[1]
           folder == IF ctmFolder = Unbound THEN UnboundLocalError
                     ELSE Field(entry, ctmFolder)
           owner == IF IsError(folder) THEN folder
                    ELSE Field(folder, "CreatedBy")
       IN  IF ctmjobConfigCount = 0
           THEN /\ bhomPc' = "jobAlert"
                /\ UNCHANGED <<event_data, bhomExc>>
           ELSE IF IsError(owner)
           THEN /\ bhomPc' = "raised"
                /\ bhomExc' = owner
                /\ UNCHANGED event_data
           ELSE /\ event_data' = Put(event_data, "ctmOwner", owner)
                /\ bhomPc' = "jobAlert"
                /\ UNCHANGED bhomExc
    /\ UNCHANGED <<ctmFolder, bhomResult, bhomFrame>>

\* Lines 2169-2251.
BhomJobAlert ==
    /\ bhomPc = "jobAlert"
    /\ BhomFinish(Build(bhomData.alert, JobSteps, event_data))
    /\ UNCHANGED <<ctmFolder, bhomFrame>>

\* Lines 2252-2344.
BhomCore ==
    /\ bhomPc = "start"
    /\ category \notin {<<"infrastructure">>, <<"job">>}
    /\ BhomFinish(Build(bhomData.alert, CoreSteps, event_data))
    /\ UNCHANGED <<ctmFolder, bhomFrame>>

BhomNext ==
    BhomInfra \/ BhomJobInfo \/ BhomJobConfig \/ BhomJobAlert \/ BhomCore

\* The selectors of the default branch.
GenericSelectors == Categories \ {<<"infrastructure">>, <<"job">>}

\* The caller passes the alert trasnformtCtmAlert returned to
\* transformCtmBHOM as coreAlert, with a selector of the default branch
\* (lines 2062-2065 and 2252).
HandOver ==
    /\ pc = "done"
    /\ bhomPc = "idle"
    /\ bhomData' = [bhomData EXCEPT !.alert = jCtmAlert]
    /\ category' \in GenericSelectors
    /\ bhomPc' = "start"
    /\ UNCHANGED <<ctmFolder, event_data, bhomExc, bhomResult, alertVars,
                   logVars, trVars, miniVars, extraVars>>

----------------------------------------------------------------------------
(* The translators called on their own *)

\* The longest argument, in chunks.
MaxLen == 3

StatusChunks == {"Not_", "Noticed", "Handled", "x"}
StatusTexts == UNION {[1..n -> StatusChunks] : n \in 0..MaxLen}

\* Texts over the words the priority translator looks for.
PriorityChunks == {"INFO", "MAJOR", "CRITICAL", "x"}
PriorityTexts == UNION {[1..n -> PriorityChunks] : n \in 0..MaxLen}

\* Texts over the one-letter codes of severity, update type and alert type.
CodeChunks == {"R", "U", "V", "I", "B", "x"}
CodeTexts == UNION {[1..n -> CodeChunks] : n \in 0..MaxLen}

\* The positions of a time stamp YYYYMMDDhhmmss, and the stamps over the
\* digits 0 and 9: for any two positions some stamp differs in them, and
\* no field of 99999999999999 is in the range of a date or a time.
DatePositions == 1..14
DateDigits == {"0", "9"}
DateTexts == [DatePositions -> DateDigits]

TrInit ==
    /\ trIn \in StatusTexts \cup PriorityTexts \cup CodeTexts \cup DateTexts
                \cup {None}
    /\ trOut = None
    /\ trPc = "call"

TrIdle ==
    /\ trIn = None
    /\ trOut = None
    /\ trPc = "idle"

trFrame == <<trIn, alertVars, logVars, bhomVars, miniVars, extraVars>>

\* A call of a translator on a text over its own words, on the empty
\* string or on None.  trOut is the value returned or the exception.
CallStatus ==
    /\ trPc = "call"
    /\ trIn = None \/ trIn \in StatusTexts
    /\ trOut' = translateCtmAlertStatus(trIn)
    /\ trPc' = "status"
    /\ UNCHANGED trFrame

CallPriority ==
    /\ trPc = "call"
    /\ trIn = None \/ trIn \in PriorityTexts
    /\ trOut' = translateCtmAlertPriority(trIn)
    /\ trPc' = "priority"
    /\ UNCHANGED trFrame

CallSeverity ==
    /\ trPc = "call"
    /\ trIn = None \/ trIn \in CodeTexts
    /\ trOut' = translateCtmAlertSeverity(trIn)
    /\ trPc' = "severity"
    /\ UNCHANGED trFrame

CallUpdateType ==
    /\ trPc = "call"
    /\ trIn = None \/ trIn \in CodeTexts
    /\ trOut' = translateCtmAlertUpdateType(trIn)
    /\ trPc' = "updateType"
    /\ UNCHANGED trFrame

CallAlertType ==
    /\ trPc = "call"
    /\ trIn = None \/ trIn \in CodeTexts
    /\ trOut' = extractCtmAlertType(trIn)
    /\ trPc' = "alertType"
    /\ UNCHANGED trFrame

CallAlertDate ==
    /\ trPc = "call"
    /\ trIn = None \/ trIn = <<>> \/ trIn \in DateTexts
    /\ trOut' = extractCtmAlertDate(trIn)
    /\ trPc' = "alertDate"
    /\ UNCHANGED trFrame

TrNext ==
    \/ CallStatus
    \/ CallPriority
    \/ CallSeverity
    \/ CallUpdateType
    \/ CallAlertType
    \/ CallAlertDate

----------------------------------------------------------------------------
(* Specifications *)

\* Each function is checked on its own: the state of the others is idle.
----------------------------------------------------------------------------
(* translateCrqStatus, bridge_helix.py lines 172-205 *)

\* The states of a change request the function names.
CrqDraft == <<"Draft">>
CrqRequestForAuthorization == W(<<"Request", "For", "Authorization">>)
CrqRequestForChange == W(<<"Request", "For", "Change">>)
CrqPlanningInProgress == W(<<"Planning", "In", "Progress">>)
CrqScheduledForReview == W(<<"Scheduled", "For", "Review">>)
CrqScheduledForApproval == W(<<"Scheduled", "For", "Approval">>)
CrqScheduled == <<"Scheduled">>
CrqImplementationInProgress == W(<<"Implementation", "In", "Progress">>)
CrqPending == <<"Pending">>
CrqRejected == <<"Rejected">>
CrqCompleted == <<"Completed">>
CrqClosed == <<"Closed">>
CrqCancelled == <<"Cancelled">>

CrqNamed ==
    {CrqDraft, CrqRequestForAuthorization, CrqRequestForChange,
     CrqPlanningInProgress, CrqScheduledForReview, CrqScheduledForApproval,
     CrqScheduled, CrqImplementationInProgress, CrqPending, CrqRejected,
     CrqCompleted, CrqClosed, CrqCancelled}

\* Other texts: every text of up to MaxLen chunks over a few words.
CrqChunks == {"Scheduled", Blank, "Implementation", "x"}
CrqTexts ==
    CrqNamed \cup UNION {[1..n -> CrqChunks] : n \in 0..MaxLen} \cup {None}

\* A translation that looks for the approved states inside the text.
translateCrqStatusBySubstring(status) ==
    IF status = None THEN 400
    ELSE IF Contains(CrqScheduled, status) THEN 200
    ELSE IF Contains(CrqImplementationInProgress, status) THEN 200
    ELSE 400

\* Lines 172-205.
translateCrqStatus(status) ==
    IF status = CrqDraft THEN 400
    ELSE IF status = CrqRequestForAuthorization THEN 400
    ELSE IF status = CrqRequestForChange THEN 400
    ELSE IF status = CrqPlanningInProgress THEN 400
    ELSE IF status = CrqScheduledForReview THEN 400
    ELSE IF status = CrqScheduledForApproval THEN 400
    ELSE IF status = CrqScheduled THEN 200
    ELSE IF status = CrqImplementationInProgress THEN 200
    ELSE IF status = CrqPending THEN 400
    ELSE IF status = CrqRejected THEN 400
    ELSE IF status = CrqCompleted THEN 400
    ELSE IF status = CrqClosed THEN 400
    ELSE IF status = CrqCancelled THEN 400
    ELSE 400

CrqInit ==
    /\ crqStatus \in CrqTexts
    /\ httpResponseCode = 0
    /\ crqPc = "call"

CrqIdle ==
    /\ crqStatus = <<>>
    /\ httpResponseCode = 0
    /\ crqPc = "idle"

\* One call of translateCrqStatus.
CallCrqStatus ==
    /\ crqPc = "call"
    /\ httpResponseCode' = translateCrqStatus(crqStatus)
    /\ crqPc' = "done"
    /\ UNCHANGED <<crqStatus, coreVars, outVars, connVars, pollVars, jobStatVars>>

CrqNext == CallCrqStatus

\* No call of the functions of the second part is under way.
ExtraIdle == OutIdle /\ ConnIdle /\ PollIdle /\ JobStatIdle /\ CrqIdle

\* No call of the functions of the first part is under way.
CoreIdle == AlertIdle /\ LogIdle /\ BhomIdle /\ TrIdle /\ MiniIdle

InitAlert == AlertInit /\ LogIdle /\ BhomIdle /\ TrIdle /\ MiniIdle /\ ExtraIdle
InitLog == LogInit /\ AlertIdle /\ BhomIdle /\ TrIdle /\ MiniIdle /\ ExtraIdle
InitBHOM == BhomInit /\ AlertIdle /\ LogIdle /\ TrIdle /\ MiniIdle /\ ExtraIdle
InitTrans == TrInit /\ AlertIdle /\ LogIdle /\ BhomIdle /\ MiniIdle /\ ExtraIdle
InitMini == MiniInit /\ AlertIdle /\ LogIdle /\ BhomIdle /\ TrIdle /\ ExtraIdle
InitOutput ==
    OutInit /\ CoreIdle /\ ConnIdle /\ PollIdle /\ JobStatIdle /\ CrqIdle
InitConn ==
    ConnInit /\ CoreIdle /\ OutIdle /\ PollIdle /\ JobStatIdle /\ CrqIdle
InitPoll ==
    PollInit /\ CoreIdle /\ OutIdle /\ ConnIdle /\ JobStatIdle /\ CrqIdle
InitJobStat ==
    JobStatInit /\ CoreIdle /\ OutIdle /\ ConnIdle /\ PollIdle /\ CrqIdle
InitCrq ==
    CrqInit /\ CoreIdle /\ OutIdle /\ ConnIdle /\ PollIdle /\ JobStatIdle

SpecAlert == InitAlert /\ [][AlertNext]_vars
\* The enriched alert goes on to the event assembler.
PipelineNext == AlertNext \/ HandOver \/ BhomCore
SpecPipeline == InitAlert /\ [][PipelineNext]_vars
\* Two calls on the same fields in opposite key orders.
AlertPairNext == AlertNext \/ SecondCall
SpecAlertPair == InitAlert /\ [][AlertPairNext]_vars
SpecLog == InitLog /\ [][LogNext]_vars
SpecBHOM == InitBHOM /\ [][BhomNext]_vars
SpecTrans == InitTrans /\ [][TrNext]_vars
SpecMini == InitMini /\ [][MiniNext]_vars
SpecOutput == InitOutput /\ [][OutNext]_vars
SpecConn == InitConn /\ [][ConnNext]_vars
SpecPoll == InitPoll /\ [][PollNext]_vars
SpecJobStat == InitJobStat /\ [][JobStatNext]_vars
SpecCrq == InitCrq /\ [][CrqNext]_vars

----------------------------------------------------------------------------
(* Properties of transformCtmJobLog *)

LogReturned == logPc = "done"

\* C7: transformCtmJobLog returns, for a text of N >= 1 non-blank
\* well-formed lines, an envelope of count N and status true whose entries
\* are the N records in the order of the lines, and for a text without a
\* non-blank line an envelope of count 0, status null and no entries.
C7_EnvelopeCounts ==
    LogReturned =>
        LET n == Len(yList)
        IN  /\ logResult.count = n
            /\ logResult.status = (IF n = 0 THEN "null" ELSE "true")
            /\ n = 0 => logResult.entries = <<>>
            /\ n >= 1 =>
                  /\ Len(log_list) = n
                  /\ \A i \in 1..n : log_list[i].data = LogRecord(yList[i])

----------------------------------------------------------------------------
(* Properties of transformCtmBHOM *)

BhomReturned == bhomPc = "done"
Event(k) == Get(bhomResult[1], k)

\* C8: whatever the category selector, transformCtmBHOM returns a list of
\* exactly one event; its CLASS is CTMX_EVENT for "infrastructure",
\* CTM_JOB for "job" and CTM_EVENT for any other selector, its status is
\* OPEN and its priority PRIORITY_3.
C8_OneEventPerCategory ==
    BhomReturned =>
        /\ Len(bhomResult) = 1
        /\ Event("CLASS") =
              (CASE category = <<"infrastructure">> -> <<"CTMX_EVENT">>
                 [] category = <<"job">> -> <<"CTM_JOB">>
                 [] OTHER -> <<"CTM_EVENT">>)
        /\ Event("status") = <<"OPEN">>
        /\ Event("priority") = <<"PRIORITY_3">>

C8_Witness ==
    /\ BhomReturned
    /\ category = <<"job">>
    /\ bhomData.jobInfo.count > 0
    /\ bhomData.jobConfig.count > 0
    /\ Event("CLASS") = <<"CTM_JOB">>
    /\ Event("ctmOwner") = Nth("owner", 1)

JobInfoKeys == {"ctmFolder", "ctmFolderID", "ctmJobHeld", "ctmJobType", "ctmJobCyclic"}

\* C9: with the selector "job" and a complete alert, a jobInfo of count 0
\* leaves the folder, held, type and cyclic projections out, a jobConfig
\* of count 0 leaves the owner out, and the event is produced without an
\* exception for every pair of counts, jobInfo 0 with jobConfig > 0
\* among them.
C9_ZeroCountsSuppress ==
    (category = <<"job">> /\ bhomData.alert = FullAlert) =>
        /\ bhomPc # "raised"
        /\ BhomReturned =>
              /\ bhomData.jobInfo.count = 0 =>
                    \A k \in JobInfoKeys : ~Has(bhomResult[1], k)
              /\ bhomData.jobConfig.count = 0 => ~Has(bhomResult[1], "ctmOwner")

----------------------------------------------------------------------------
(* Properties of the translators *)

\* C10: for every string, translateCtmAlertStatus returns OPEN when the
\* string contains "Not_Noticed", else ACK when it contains "Noticed",
\* else CLOSED when it contains "Handled", else OPEN: the first check that
\* matches decides.
C10_StatusOrder ==
    (trPc = "status" /\ trIn # None) =>
        /\ Contains(<<"Not_", "Noticed">>, trIn) => trOut = <<"OPEN">>
        /\ (~Contains(<<"Not_", "Noticed">>, trIn) /\ Contains(<<"Noticed">>, trIn))
              => trOut = <<"ACK">>
        /\ (~Contains(<<"Noticed">>, trIn) /\ Contains(<<"Handled">>, trIn))
              => trOut = <<"CLOSED">>
        /\ (~Contains(<<"Noticed">>, trIn) /\ ~Contains(<<"Handled">>, trIn))
              => trOut = <<"OPEN">>

C10_Witness ==
    /\ trPc = "status"
    /\ trIn = <<"Handled", "Not_", "Noticed">>
    /\ trOut = <<"OPEN">>

StatusCalled == trPc = "status" /\ trIn # None

\* C11 as stated: a string that contains a status substring yields the
\* value of that substring, whatever else the string contains.
C11_AnySubstringDecides ==
    StatusCalled =>
        /\ Contains(<<"Not_", "Noticed">>, trIn) => trOut = <<"OPEN">>
        /\ Contains(<<"Noticed">>, trIn) => trOut = <<"ACK">>
        /\ Contains(<<"Handled">>, trIn) => trOut = <<"CLOSED">>

\* C11, amended: a string that contains a status substring yields the
\* value of that substring unless it also contains a substring checked
\* earlier ("Not_Noticed" before "Noticed" before "Handled"); text that
\* holds a substring checked later does not change the value.
C11_SubstringDecidesUnlessEarlier ==
    StatusCalled =>
        /\ Contains(<<"Not_", "Noticed">>, trIn) => trOut = <<"OPEN">>
        /\ (Contains(<<"Noticed">>, trIn) /\ trOut # <<"ACK">>)
              => Contains(<<"Not_", "Noticed">>, trIn)
        /\ (Contains(<<"Handled">>, trIn) /\ trOut # <<"CLOSED">>)
              => Contains(<<"Noticed">>, trIn)

C11_Witness ==
    /\ StatusCalled
    /\ trIn = <<"x", "Noticed", "Handled">>
    /\ trOut = <<"ACK">>

PriorityCalled == trPc = "priority" /\ trIn # None

\* C12: for every string, translateCtmAlertPriority returns PRIORITY_5
\* when the string contains "INFO", else PRIORITY_2 when it contains
\* "MAJOR", else PRIORITY_1 when it contains "CRITICAL", else the fallback
\* "INFO", which is no PRIORITY_n value.
C12_PriorityOrder ==
    PriorityCalled =>
        LET info == Contains(<<"INFO">>, trIn)
            major == Contains(<<"MAJOR">>, trIn)
            critical == Contains(<<"CRITICAL">>, trIn)
        IN  /\ info => trOut = <<"PRIORITY_5">>
            /\ (~info /\ major) => trOut = <<"PRIORITY_2">>
            /\ (~info /\ ~major /\ critical) => trOut = <<"PRIORITY_1">>
            /\ (~info /\ ~major /\ ~critical) => trOut = <<"INFO">>

C12_Witness ==
    /\ PriorityCalled
    /\ trIn = <<"CRITICAL", "MAJOR", "INFO">>
    /\ trOut = <<"PRIORITY_5">>

\* The value of the else branch of each translator.
Fallback(name) ==
    CASE name = "status" -> <<"OPEN">>
      [] name = "severity" -> <<"INFO">>
      [] name = "priority" -> <<"INFO">>
      [] name = "updateType" -> <<"New">>
      [] name = "alertType" -> <<"Regular">>

Translators == {"status", "severity", "priority", "updateType", "alertType"}

\* C13: each of the five translators returns its fallback value, and
\* raises nothing, on an absent (None) input and on the empty string.
C13_FallbackOnAbsentOrEmpty ==
    (trPc \in Translators /\ trIn \in {None, <<>>}) =>
        /\ ~IsError(trOut)
        /\ trOut = Fallback(trPc)

DateCalled == trPc = "alertDate" /\ trIn \in DateTexts

\* C14: for a string s of 14 digits, extractCtmAlertDate(s) is
\* s[0:4]-s[4:6]-s[6:8] s[8:10]:s[10:12]:s[12:14], whatever the digits:
\* no field is checked against the range of a month, day, hour, minute or
\* second.
C14_DateLayout ==
    DateCalled =>
        trOut = << trIn[1], trIn[2], trIn[3], trIn[4], "-",
                   trIn[5], trIn[6], "-", trIn[7], trIn[8], " ",
                   trIn[9], trIn[10], ":", trIn[11], trIn[12], ":",
                   trIn[13], trIn[14] >>

C14_Witness ==
    /\ DateCalled
    /\ trIn = [i \in DatePositions |-> IF i \in {5, 6, 9, 10} THEN "9" ELSE "0"]
    /\ trOut = << "0", "0", "0", "0", "-", "9", "9", "-", "0", "0", " ",
                  "9", "9", ":", "0", "0", ":", "0", "0" >>

----------------------------------------------------------------------------
(* More properties of trasnformtCtmAlert *)

\* The place of a key in the lexicographic order of the keys of an alert.
KeyRank(k) == CHOOSE i \in 1..Len(SortedKeys) : SortedKeys[i] = k

KeysSorted(d) ==
    \A i, j \in 1..Len(d.ord) : i < j => KeyRank(d.ord[i]) < KeyRank(d.ord[j])

SecondReturned == firstOut # EmptyDict /\ pc \in {"done", "raised"}

\* C15: the alert returned lists its keys in lexicographic order and holds
\* every key of the input, whatever the key order of the input; a second
\* call on the same key/value pairs in another key order returns the same
\* alert as the first.
C15_SortedAndOrderFree ==
    /\ Returned =>
          /\ KeysSorted(jCtmAlert)
          /\ \A i \in 1..Len(rawAlert.ord) : Has(jCtmAlert, rawAlert.ord[i])
    /\ SecondReturned => (pc = "done" /\ jCtmAlert = firstOut)

\* The part of C15 about the order of the keys alone.
KeysSortedAtReturn ==
    Returned =>
        /\ KeysSorted(jCtmAlert)
        /\ \A i \in 1..Len(rawAlert.ord) : Has(jCtmAlert, rawAlert.ord[i])

\* The alert is one field, and the field is null.
OneNullField ==
    /\ Len(rawAlert.ord) = 1
    /\ rawAlert.ord[1] \in NullableFields
    /\ rawAlert.val[1] = None

\* C16: a null or absent field only keeps its rule from firing: the call
\* on an alert whose one field is null (every other field absent) raises
\* nothing, and returns the alert with that field still null.
C16_NullFieldNeverFatal ==
    OneNullField =>
        /\ pc # "raised"
        /\ Returned => Out(rawAlert.ord[1]) = None

\* The alert names a host for the resolver: in an agent, data-center or
\* infrastructure message with all its words, or in Component_machine.
NamesHost ==
    \/ /\ RawText("message")
       /\ MessageRule(Raw("message")) \in {"agent", "datacenter", "infrastructure"}
       /\ Len(Split(Raw("message"))) >= 5
       /\ MessageRule(Raw("message")) = "agent" => Len(Split(Raw("message"))) >= 8
    \/ RawText("Component_machine")

\* C17: when the resolver knows no host (it returns null for the address,
\* the name and the domain), the call on an alert that names a host still
\* returns, and the alert returned has null host_ip, host_ip_fqdn and
\* host_ip_dns.
C17_UnresolvedHostNotFatal ==
    (~resolves /\ NamesHost) =>
        /\ pc # "raised"
        /\ Returned =>
              /\ Out("host_ip") = None
              /\ Out("host_ip_fqdn") = None
              /\ Out("host_ip_dns") = None

\* No pattern of the message rule is in the message.
Unmatched == RawText("message") /\ MessageRule(Raw("message")) = "default"

\* The alert has every field the default branch of transformCtmBHOM reads
\* besides those the enricher adds.
IsComplete == \A k \in DOMAIN CompleteAlert(MsgOther) : RawHas(k)

\* C18: an alert whose message holds none of the six patterns is returned
\* with the message as message_summary and as message_notes and (no other
\* field having a category rule) a null system_category; transformCtmBHOM
\* with a selector of the default branch then builds a CTM_EVENT event
\* from the returned alert, complete as the scheduler sends it, without
\* an exception.
C18_UnmatchedFallsBackToCore ==
    (Unmatched /\ IsComplete) =>
        /\ Returned =>
              /\ Out("message_summary") = Raw("message")
              /\ Out("message_notes") = Raw("message")
              /\ Out("system_category") = None
        /\ bhomPc # "raised"
        /\ BhomReturned => Event("CLASS") = <<"CTM_EVENT">>

\* The first half of C18, for every alert with a message field only or a
\* complete one.
UnmatchedVerbatim ==
    (Unmatched /\ Returned /\ ~OtherCategoryField /\ ~RawHas("Message")) =>
        /\ Out("message_summary") = Raw("message")
        /\ Out("message_notes") = Raw("message")

----------------------------------------------------------------------------
(* More properties of transformCtmJobLog *)

HasMalformedLine == \E i \in 1..Len(logData) : logData[i] \in MalformedLines

\* C19: a line that lacks the expected shape (no tab and code, one token
\* only, no run of two or more white-space characters, a job-ended
\* message of fewer than seven tokens) does not make transformCtmJobLog
\* fail: it still returns an envelope with a count and a status.
C19_MalformedLineNotFatal ==
    HasMalformedLine =>
        /\ logPc # "raised"
        /\ LogReturned =>
              /\ logResult.count \in Nat
              /\ logResult.status \in {"true", "false", "null"}

----------------------------------------------------------------------------
(* Properties of transformCtmJobLogMini *)

MiniReturned == miniPc = "done"

\* Whether the loop has produced a structured record.
MiniStructured == miniStatus

\* C20: for every input text transformCtmJobLogMini returns a well-formed
\* envelope and does not raise: the structured envelope when a structured
\* record was produced, otherwise the envelope of the numbered failure
\* entries; so for the empty text, for a text of header lines only and
\* for a text whose failure line comes after structured lines.
C20_MiniAlwaysReturns ==
    /\ miniPc # "raised"
    /\ MiniReturned =>
          /\ miniResult.count = miniI
          /\ miniResult.status \in {"true", "false"}
          /\ miniResult.status = "true" <=> MiniStructured
          /\ miniResult.entries =
                IF MiniStructured THEN <<mini_list>>
                ELSE <<<<"{">> \o miniEntry \o <<"}">>>>


\* The number a run counter writes: the text without its leading zeros.
RECURSIVE LeadingZerosOff(_)
LeadingZerosOff(s) ==
    IF s # <<>> /\ Head(s) = "0" THEN LeadingZerosOff(Tail(s)) ELSE s

\* The run count a job-ended line reports.
RunCountOf(line) == IF line = MiniEnded10 THEN <<"1", "0">> ELSE <<"1">>

\* Whether the records hold one of a job-ended line with the run count.
KeptEnded(count) ==
    \E j \in 1..Len(mini_list) :
        /\ Has(mini_list[j].data, "run_count")
        /\ Get(mini_list[j].data, "run_count") = count

\* Whether the records hold one with the code.
KeptCode(code) ==
    \E j \in 1..Len(mini_list) : Get(mini_list[j].data, "code") = code

\* C21: transformCtmJobLogMini keeps a record of code 5100 exactly when
\* its run count is the number of the target run counter (leading zeros
\* of the target ignored): for the target "00010" the record of run 1 is
\* dropped and the one of run 10 is kept; records of other codes are kept.
C21_KeepsTargetRunOnly ==
    MiniReturned =>
        \A k \in 1..Len(pList) :
            /\ pList[k] \in {MiniEnded, MiniEnded10} =>
                  (KeptEnded(RunCountOf(pList[k]))
                      <=> RunCountOf(pList[k]) = LeadingZerosOff(runCounter))
            /\ pList[k] \in {MiniOrdered, MiniOrderedTab} => KeptCode(<<"5065">>)


----------------------------------------------------------------------------
(* More properties of trasnformtCtmAlert *)

\* The message names the configuration agent and no pattern tested before.
NamesConfigAgent ==
    /\ RawText("message")
    /\ Contains(PatInfra, Raw("message"))
    /\ ~Contains(PatAgent, Raw("message"))
    /\ ~Contains(PatDataCenter, Raw("message"))

\* C22: for an alert whose message names the configuration agent (and no
\* pattern tested before it) the returned alert has the category
\* infrastructure, and the status "Not responding" when the message
\* contains "Not responding", the pending value "TBD" otherwise.  The
\* alert holds no other field that sets a category.
C22_InfraStatus ==
    (NamesConfigAgent /\ ~OtherCategoryField /\ Returned) =>
        /\ Out("system_category") = <<"infrastructure">>
        /\ Out("system_status") =
              IF Contains(W(<<"Not", "responding">>), Raw("message"))
              THEN <<"Not responding">> ELSE <<"TBD">>


----------------------------------------------------------------------------
(* Properties of transformCtmJobOutput *)

OutReturned == outPc = "done"

\* The failure signatures: one line that contains "Failed", or two lines
\* with "rejected" in the first and "USER NOT AUTHORIZED" in the second.
FailureSignature(yl) ==
    \/ Len(yl) = 1 /\ Contains(PatFailed, yl[1])
    \/ Len(yl) = 2 /\ Contains(PatRejected, yl[1])
                   /\ Contains(PatNotAuthorized, yl[2])

\* C23: transformCtmJobOutput returns the number of non-blank lines as
\* count, and the status null when no line was parsed, false exactly when
\* a failure signature is recognized, true in every other case (a single
\* line without a signature included).
C23_OutputStatus ==
    OutReturned =>
        /\ outResult.count = Len(NonBlank(outData))
        /\ outResult.status =
              IF Len(NonBlank(outData)) = 0 THEN "null"
              ELSE IF FailureSignature(StripAll(NonBlank(outData))) THEN "false"
              ELSE "true"


----------------------------------------------------------------------------
(* The records of transformCtmJobLog *)

\* The text after the first tab of a line.
AfterFirstTab(line) ==
    LET t == CHOOSE i \in 1..Len(line) :
                 line[i] = Tab /\ \A k \in 1..(i - 1) : line[k] # Tab
    IN  SubSeq(line, t + 1, Len(line))

KeySet(d) == {d.ord[i] : i \in 1..Len(d.ord)}

EndedKeys == {"oscompstat", "run_count", "ended"}
BaseKeys == {"time", "date", "message", "code"}

\* C24: a record of transformCtmJobLog carries oscompstat, run_count and
\* ended (the decoded end time) exactly when its code is "5100"; every
\* record carries time (the first token of its line), date (the second),
\* message and code (the text after the first tab), so a line of code
\* 5065 gives a record of those four fields only.
C24_RecordFields ==
    \A j \in 1..Len(log_list) :
        LET r == log_list[j].data
            line == yList[j]
        IN  /\ BaseKeys \subseteq KeySet(r)
            /\ Get(r, "time") = Split(line)[1]
            /\ Get(r, "date") = Split(line)[2]
            /\ Get(r, "code") = AfterFirstTab(line)
            /\ \A k \in EndedKeys : Has(r, k) <=> Get(r, "code") = <<"5100">>
            /\ Get(r, "code") = <<"5100">> =>
                  /\ Get(r, "ended") = extractCtmAlertDate(EndedStamp)
                  /\ Get(r, "oscompstat") = <<"0">>
                  /\ Get(r, "run_count") = <<"1">>
            /\ Get(r, "code") = <<"5065">> =>
                  /\ KeySet(r) = BaseKeys
                  /\ Get(r, "message") = OrderedMessage

\* A returned call with a record of code 5100 and one of code 5065.
C24_Witness ==
    /\ LogReturned
    /\ \E j, k \in 1..Len(log_list) :
          /\ Get(log_list[j].data, "code") = <<"5100">>
          /\ Has(log_list[j].data, "ended")
          /\ Get(log_list[k].data, "code") = <<"5065">>
          /\ ~Has(log_list[k].data, "oscompstat")


----------------------------------------------------------------------------
(* More properties of transformCtmJobLogMini *)

\* C25: in the structured envelope transformCtmJobLogMini returns, count
\* is the number of records in entries, for every text and every target
\* run counter, job-ended records of another run included.
C25_CountIsRecords ==
    (MiniReturned /\ miniResult.status = "true") =>
        miniResult.count = Len(miniResult.entries[1])


\* The pieces the loop parses, in order; the record of entry number e is
\* of the piece e + 1 of them.
ParsedPieces == SelectSeq(pList, MiniParsed)

\* Whether a line carries a code, and the code it carries.
CarriesCode(line) == \E i \in 1..Len(line) : line[i] = EscTab
OwnCode(line) == SplitAt(line, EscTab)[2]

\* C26: in transformCtmJobLogMini the code of a record, and whether its
\* line is taken as a job-ended line, come from that line alone: a line
\* without a code never takes over the code of an earlier line, and the
\* first line is processed without error with or without a code.
C26_CodeFromLineAlone ==
    /\ \A j \in 1..Len(mini_list) :
          LET line == ParsedPieces[mini_list[j].entry + 1]
              code == Get(mini_list[j].data, "code")
          IN  IF CarriesCode(line) THEN code = OwnCode(line)
              ELSE code \in {None, <<>>}
    /\ (pList # <<>> /\ pList[1] = MiniNoCode) =>
          ~(miniPc = "raised" /\ miniIdx = 1)


----------------------------------------------------------------------------
(* Properties of CtmConnection *)

\* C27: on a connection that logged in, through any sequence of logout()
\* calls and the finalization, do_logout is called only while logged_in
\* is true; after a do_logout that succeeded logged_in is false and no
\* later logout() or __del__ calls do_logout; while every do_logout
\* failed logged_in stays true.
C27_LogoutOnlyWhileLoggedIn ==
    connPc \in {"live", "deleted"} =>
        /\ \A i \in 1..Len(apiLog) : apiLog[i].logged_in
        /\ \A i \in 1..Len(apiLog) : apiLog[i].outcome = "ok" => i = Len(apiLog)
        /\ logged_in <=> \A i \in 1..Len(apiLog) : apiLog[i].outcome # "ok"

\* A finalized connection whose first do_logout failed, whose second
\* succeeded, and on which a later logout() made no call.
C27_Witness ==
    /\ connPc = "deleted"
    /\ Len(apiLog) = 2
    /\ apiLog[1].outcome = "ApiException"
    /\ apiLog[2].outcome = "ok"
    /\ logoutCalls > 2
    /\ ~logged_in


----------------------------------------------------------------------------
(* Properties of ctmTest *)

Succeeded(i) == polled[i] = <<"SUCCEEDED">>

\* C28: the polling loop of ctmTest is left for the code after it exactly
\* when a polled status is "SUCCEEDED": after that status the next step
\* leaves the loop, after every other status (PROCESSING, PENDING or a
\* status of failure) the next step polls again, however many polls have
\* been made.
C28_PollsUntilSucceeded ==
    /\ [](pollPc = "report" =>
             /\ polled # <<>>
             /\ Succeeded(Len(polled))
             /\ \A i \in 1..(Len(polled) - 1) : ~Succeeded(i))
    /\ [][(pollPc = "loop" /\ Succeeded(Len(polled))) => pollPc' = "report"]_vars
    /\ [][(pollPc = "loop" /\ ~Succeeded(Len(polled))) =>
              \/ Len(polled') = Len(polled) + 1
              \/ pollPc' = "raised"]_vars

\* The loop still polling after MaxPolls polls, the last of which gave a
\* status of failure.
C28_Witness ==
    /\ pollPc = "loop"
    /\ Len(polled) = MaxPolls
    /\ polled[MaxPolls] = <<"FAILED">>
    /\ \A i \in 1..MaxPolls : ~Succeeded(i)


----------------------------------------------------------------------------
(* Properties of getCtmJobStatus *)

JobStatEnded == jobPc \in {"done", "raised"}

\* C29: for the sentinel order id "00000" getCtmJobStatus makes no call
\* of the scheduler API and returns a value without raising; for every
\* other order id it queries the job id <server>:<orderId> exactly once
\* and returns a value, on the success path and on the path of an API
\* error.
C29_JobStatusReturns ==
    /\ jobPc # "raised"
    /\ JobStatEnded =>
          apiCalls = IF ctmOrderID = SentinelOrderId THEN <<>>
                     ELSE <<ctmServer \o <<":">> \o ctmOrderID>>


----------------------------------------------------------------------------
(* Properties of translateCrqStatus *)

\* C30: translateCrqStatus is total and returns 200 exactly when the
\* status equals "Scheduled" or "Implementation In Progress", and 400
\* for every other text ("Scheduled For Review", "Scheduled For
\* Approval", "Completed", "Closed" and unknown values included): it
\* matches by equality, not by substring.
C30_ApprovedByEquality ==
    crqPc = "done" =>
        httpResponseCode =
            IF crqStatus \in {CrqScheduled, CrqImplementationInProgress}
            THEN 200 ELSE 400

\* The call on "Scheduled For Review", which holds "Scheduled", gave 400.
C30_Witness ==
    /\ crqPc = "done"
    /\ crqStatus = CrqScheduledForReview
    /\ httpResponseCode = 400

=============================================================================
